---- MODULE Spec2Model ----
(***************************************************************************)
(* Model of the generation scripts of html-to-markdown:                    *)
(*   scripts/generate_readme.py            (class ReadmeGenerator)         *)
(*   scripts/generate_visitor_callbacks.py (load_schema, generate_code,    *)
(*                                          main)                          *)
(* Texts are sequences of one-character strings.  Python mappings are      *)
(* functions whose DOMAIN is the set of keys present.  The template engine *)
(* and the YAML parser are external: a template body is a sequence of      *)
(* tokens, a token being a literal character, a placeholder for a context  *)
(* variable, or an expression whose evaluation raises.                     *)
(***************************************************************************)
EXTENDS Integers, Sequences, FiniteSets, TLC

\* ----------------------------------------------------------------- bounds
MaxTargets == 2      \* configured targets (languages) per document
MaxRuns == 2         \* invocations of process_all_languages / main per behaviour
MaxMd == 6           \* tokens of a markdown snippet given to extract_code_block
MaxRaw == 3          \* tokens of a raw snippet given to wrap_code_block
MaxBench == 2        \* benchmark records of a performance table

\* ------------------------------------------------------------------ texts
NL == "\n"
CR == "\r"
SP == " "
\* str.rstrip() with no argument strips trailing whitespace
Whitespace == {SP, NL, CR, "\t"}

rstrip_m(s) ==
    IF s # <<>> /\ s[Len(s)] \in Whitespace THEN SubSeq(s, 1, Len(s) - 1) ELSE s

RECURSIVE rstrip(_)
rstrip(s) ==
    IF s = <<>> THEN s
    ELSE IF s[Len(s)] \in Whitespace THEN rstrip(SubSeq(s, 1, Len(s) - 1))
    ELSE s

\* Path.read_text opens the file with newline=None: universal newlines, every
\* "\r\n" and every lone "\r" of the stored data is read as "\n".
RECURSIVE read_text(_)
read_text(data) ==
    IF data = <<>> THEN <<>>
    ELSE IF Head(data) = CR
         THEN IF Len(data) >= 2 /\ data[2] = NL
              THEN <<NL>> \o read_text(Tail(Tail(data)))
              ELSE <<NL>> \o read_text(Tail(data))
         ELSE <<Head(data)>> \o read_text(Tail(data))

\* read_text(encoding="utf-8") raises UnicodeDecodeError for data holding a
\* byte that is not UTF-8 (written xFF here)
BadByte == "xFF"
undecodable(data) == \E i \in 1..Len(data) : data[i] = BadByte

\* os.linesep of the platform the scripts run on (POSIX)
linesep == <<NL>>

\* Path.write_text opens the file with newline=None: every "\n" of the text is
\* stored as os.linesep, every other character as it is.
RECURSIVE write_text(_)
write_text(text) ==
    IF text = <<>> THEN <<>>
    ELSE (IF Head(text) = NL THEN linesep ELSE <<Head(text)>>) \o write_text(Tail(text))

\* ------------------------------------------------------------ mappings
EmptyMap == [k \in {} |-> <<>>]

\* Body applied to a value computed once: value is evaluated when the set that
\* holds it is built, and Body reads the result as often as it needs
With(value, Body(_)) == CHOOSE y \in {Body(x) : x \in {value}} : TRUE

\* dict.get(key, default)
Get(m, k, default) == IF k \in DOMAIN m THEN m[k] ELSE default

\* The filters and helpers called on their own: the snippet files below
\* docs/snippets, and the last call made with its arguments and result.
VARIABLES
    snippets,       \* <<language, file name>> -> text, the files of snippets_dir
    call,           \* [op, in, out] of the last call, or NoCall
    hist            \* the calls made on one ReadmeGenerator, oldest first

\* ========================================================= CodeBlockHandler
\* A snippet's text is a sequence of characters in which a run of three
\* backticks (written BQ3 here) and a title attribute are one token each.
FENCE == "BQ3"
TitleAttrs == {"title=\"a\""}          \* a text matching the title attribute
Letters == {"a", "b", "c", "d", "e", "f", "g", "h", "i", "j", "k", "l", "m",
            "n", "o", "p", "q", "r", "s", "t", "u", "v", "w", "x", "y", "z"}
Digits == {"0", "1", "2", "3", "4", "5", "6", "7", "8", "9"}
WordChars == Letters \cup Digits \cup {"_"}          \* \w
TextTag == <<"t", "e", "x", "t">>

RECURSIVE lstrip(_)
lstrip(s) ==
    IF s = <<>> THEN s
    ELSE IF Head(s) \in Whitespace THEN lstrip(Tail(s))
    ELSE s

\* the first index from j on that holds no character of S (Len(c) + 1 if none)
RECURSIVE RunEnd(_, _, _)
RunEnd(c, j, S) == IF j > Len(c) \/ c[j] \notin S THEN j ELSE RunEnd(c, j + 1, S)

\* The pattern's tail, \s*\n(.*?) and the closing fence, on the whitespace
\* run c[a..b-1]: the greedy \s* leaves the last newline of the run to \n,
\* group 2 starts behind it and ends, lazily, before the next fence.
MatchBody(c, a, b) ==
    LET closed(begin, fences) ==
            IF fences = {} THEN [ok |-> FALSE]
            ELSE [ok |-> TRUE, begin |-> begin,
                  stop |-> CHOOSE f \in fences : \A g \in fences : f <= g]
        body(begin) == With({f \in begin..Len(c) : c[f] = FENCE},
                            LAMBDA fences : closed(begin, fences))
        line_end(nls) ==
            IF nls = {} THEN [ok |-> FALSE]
            ELSE With((CHOOSE n \in nls : \A m \in nls : m <= n) + 1, body)
    IN  With({n \in a..(b - 1) : c[n] = NL}, line_end)

\* the pattern (fence, optional \w+ tag, \s*, optional title attribute, \s*,
\* \n, lazy body, fence) tried at index i
MatchAt(c, i) ==
    IF c[i] # FENCE THEN [ok |-> FALSE]
    ELSE LET groups(t, m) ==
                 IF m.ok
                 THEN [ok |-> TRUE, group1 |-> SubSeq(c, i + 1, t - 1),
                       group2 |-> SubSeq(c, m.begin, m.stop - 1)]
                 ELSE [ok |-> FALSE]
             untitled(t, w, titled) ==
                 IF titled.ok THEN groups(t, titled)
                 ELSE With(MatchBody(c, t, w), LAMBDA m : groups(t, m))
             tagged(t, w) ==
                 IF w <= Len(c) /\ c[w] \in TitleAttrs
                 THEN With(MatchBody(c, w + 1, RunEnd(c, w + 1, Whitespace)),
                           LAMBDA titled : untitled(t, w, titled))
                 ELSE untitled(t, w, [ok |-> FALSE])
         IN  With(RunEnd(c, i + 1, WordChars),
                  LAMBDA t : With(RunEnd(c, t, Whitespace), LAMBDA w : tagged(t, w)))

search_m(content) ==
    LET hits == {i \in 1..Len(content) : MatchAt(content, i).ok}
    IN  IF hits = {} THEN [ok |-> FALSE]
        ELSE MatchAt(content, CHOOSE i \in hits : \A j \in hits : j <= i)
\* re.search(pattern, content, re.DOTALL): the leftmost match
search(content) ==
    LET leftmost(hits) ==
            IF hits = {} THEN [ok |-> FALSE]
            ELSE MatchAt(content, CHOOSE i \in hits : \A j \in hits : i <= j)
    IN  With({i \in 1..Len(content) : MatchAt(content, i).ok}, leftmost)

extract_code_block_m(content, snippet_path) ==
    LET match == search(content)
    IN  IF ~match.ok THEN [raised |-> "none", text |-> <<>>]
        ELSE LET language == IF match.group1 # <<>> THEN match.group1 ELSE TextTag
                 code == rstrip(match.group2)
             IN  [raised |-> "none",
                  text |-> <<FENCE>> \o language \o <<NL>> \o code \o <<NL, FENCE, NL>>]
\* the ValueError carries the message that names snippet_path
extract_code_block(content, snippet_path) ==
    LET found(match) ==
            IF ~match.ok
            THEN [raised |-> "ValueError", text |-> <<>>,
                  message |-> <<"No code block found in markdown snippet: ", snippet_path,
                                NL, "Ensure file contains code wrapped in triple backticks">>]
            ELSE LET language == IF match.group1 # <<>> THEN match.group1 ELSE TextTag
                     code == rstrip(match.group2)
                 IN  [raised |-> "none",
                      text |-> <<FENCE>> \o language \o <<NL>> \o code \o <<NL, FENCE, NL>>]
    IN  With(search(content), found)

\* CodeBlockHandler.LANGUAGE_MAP
LANGUAGE_MAP ==
    (<<".", "p", "y">> :> <<"p", "y", "t", "h", "o", "n">>) @@
    (<<".", "g", "o">> :> <<"g", "o">>) @@
    (<<".", "j", "a", "v", "a">> :> <<"j", "a", "v", "a">>) @@
    (<<".", "j", "s">> :> <<"j", "a", "v", "a", "s", "c", "r", "i", "p", "t">>) @@
    (<<".", "t", "s">> :> <<"t", "y", "p", "e", "s", "c", "r", "i", "p", "t">>) @@
    (<<".", "r", "b">> :> <<"r", "u", "b", "y">>) @@
    (<<".", "p", "h", "p">> :> <<"p", "h", "p">>) @@
    (<<".", "c", "s">> :> <<"c", "s", "h", "a", "r", "p">>) @@
    (<<".", "r", "s">> :> <<"r", "u", "s", "t">>) @@
    (<<".", "e", "x">> :> <<"e", "l", "i", "x", "i", "r">>) @@
    (<<".", "e", "x", "s">> :> <<"e", "l", "i", "x", "i", "r">>)

\* PurePath.suffix of a file name: from the last dot on, unless that dot is
\* the name's first or last character
suffix(name) ==
    LET dots == {i \in 1..Len(name) : name[i] = "."}
        i == IF dots = {} THEN 0 ELSE CHOOSE d \in dots : \A e \in dots : e <= d
    IN  IF 1 < i /\ i < Len(name) THEN SubSeq(name, i, Len(name)) ELSE <<>>

\* str.lstrip(".")
RECURSIVE lstrip_dot(_)
lstrip_dot(s) == IF s # <<>> /\ Head(s) = "." THEN lstrip_dot(Tail(s)) ELSE s

wrap_code_block_m(content, snippet_path, language) ==
    LET content_stripped == lstrip(content)
    IN  IF content_stripped # <<>> /\ Head(content_stripped) = FENCE
        THEN content_stripped
        ELSE LET ext == lstrip_dot(suffix(snippet_path))
                 lang_id == IF language \in DOMAIN LANGUAGE_MAP THEN LANGUAGE_MAP[language]
                            ELSE IF ext # <<>> THEN ext ELSE TextTag
             IN  <<FENCE>> \o lang_id \o <<NL>> \o rstrip(content) \o <<NL, FENCE, NL>>

\* snippet_path is the file's name, language the language code of the call
wrap_code_block(content, snippet_path, language) ==
    LET content_stripped == lstrip(content)
    IN  IF content_stripped # <<>> /\ Head(content_stripped) = FENCE
        THEN content
        ELSE LET ext == lstrip_dot(suffix(snippet_path))
                 lang_id == IF language \in DOMAIN LANGUAGE_MAP THEN LANGUAGE_MAP[language]
                            ELSE IF ext # <<>> THEN ext ELSE TextTag
                 code == rstrip(content)
             IN  <<FENCE>> \o lang_id \o <<NL>> \o code \o <<NL, FENCE, NL>>

\* ------------------------------------ ReadmeGenerator.include_snippet_filter
MdSuffix == <<".", "m", "d">>
exists(language, name) == <<language, name>> \in DOMAIN snippets

include_snippet_filter_m(path, language) ==
    LET snippet_path == IF suffix(path) = <<>> /\ ~exists(language, path)
                              /\ exists(language, path \o MdSuffix)
                        THEN path \o MdSuffix ELSE path
    IN  IF ~exists(language, snippet_path)
        THEN [raised |-> "FileNotFoundError", text |-> <<>>]
        ELSE IF undecodable(snippets[<<language, snippet_path>>])
        THEN [raised |-> "ValueError", text |-> <<>>]
        ELSE LET content == read_text(snippets[<<language, snippet_path>>])
             IN  IF suffix(snippet_path) = MdSuffix
                 THEN extract_code_block(content, <<language, snippet_path>>)
                 ELSE [raised |-> "none",
                       text |-> wrap_code_block(content, snippet_path, language)]

\* path is the file name below docs/snippets/{language}
include_snippet_filter(path, language) ==
    LET md_path == path \o MdSuffix                     \* with_suffix(".md")
        read(snippet_path, content) ==
            IF suffix(snippet_path) = MdSuffix
            THEN extract_code_block(content, <<language, snippet_path>>)
            ELSE [raised |-> "none",
                  text |-> wrap_code_block(content, snippet_path, language)]
        resolved(snippet_path) ==
            IF ~exists(language, snippet_path)
            THEN [raised |-> "FileNotFoundError", text |-> <<>>]
            ELSE IF undecodable(snippets[<<language, snippet_path>>])
            THEN [raised |-> "ValueError", text |-> <<>>]       \* "Failed to read snippet"
            ELSE With(read_text(snippets[<<language, snippet_path>>]),
                      LAMBDA content : read(snippet_path, content))
    IN  With(IF suffix(path) = <<>> /\ exists(language, md_path) THEN md_path ELSE path,
             resolved)

\* ------------------------------------------------------------- templates
FailTok == "{{fail}}"                 \* an expression whose evaluation raises
VarToks == {"{{banner_url}}", "{{language}}", "{{version}}", "{{migration_guide}}"}
VarName(tok) ==
    CASE tok = "{{banner_url}}" -> "banner_url"
      [] tok = "{{language}}" -> "language"
      [] tok = "{{version}}" -> "version"
      [] tok = "{{migration_guide}}" -> "migration_guide"

\* an expression that calls a mutating method of a context value: the last
\* element of the list `callbacks` is removed and rendered
PopTok == "{{callbacks.pop()}}"

\* the filter expression {{ "a" | include_snippet("python") }} of a README
\* template; the environment of setup_jinja_env maps include_snippet to the
\* generator's include_snippet_filter
SnippetTok == "{{a|include_snippet(python)}}"
SnippetArgs == [path |-> <<"a">>, language |-> <<"p", "y", "t", "h", "o", "n">>]
\* template.render(**context): the tokens are evaluated from left to right;
\* literals are copied, placeholders replaced by the context's value, and an
\* expression that raises aborts the render.  The values of the context are
\* the caller's objects, so what an expression changes in them stays changed:
\* the result carries the context as the render leaves it.
RECURSIVE render(_, _)
render(body, context) ==
    LET \* the text of the token, then the rest of the body under the context ctx
        joined(text, ctx) ==
            With(render(Tail(body), ctx),
                 LAMBDA rest :
                     IF rest.raised
                     THEN [raised |-> TRUE, text |-> <<>>, context |-> rest.context]
                     ELSE [raised |-> FALSE, text |-> text \o rest.text,
                           context |-> rest.context])
        \* callbacks.pop() on a non-empty list
        pop(list) ==
            joined(<<list[Len(list)]>>,
                   [context EXCEPT !["callbacks"] = SubSeq(list, 1, Len(list) - 1)])
        included(snippet) ==
            IF snippet.raised # "none"
            THEN [raised |-> TRUE, text |-> <<>>, context |-> context]
            ELSE joined(snippet.text, context)
        evaluated(tok) ==
            IF tok = FailTok THEN [raised |-> TRUE, text |-> <<>>, context |-> context]
            ELSE IF tok = PopTok
            THEN IF "callbacks" \in DOMAIN context /\ context["callbacks"] # <<>>
                 THEN pop(context["callbacks"])
                 ELSE [raised |-> TRUE, text |-> <<>>, context |-> context]
            ELSE IF tok = SnippetTok
            THEN With(include_snippet_filter(SnippetArgs.path, SnippetArgs.language), included)
            ELSE IF tok \in VarToks
            THEN joined(Get(context, VarName(tok), <<>>), context)
            ELSE joined(<<tok>>, context)
    IN  IF body = <<>> THEN [raised |-> FALSE, text |-> <<>>, context |-> context]
        ELSE evaluated(Head(body))

\* ----------------------------------------------------------------- paths
\* A path is the sequence of its components below the project root.
project_root == <<>>
packages_dir == project_root \o <<"packages">>

Parent(p) == SubSeq(p, 1, Len(p) - 1)
Ancestors(p) == {SubSeq(p, 1, n) : n \in 1..(Len(p) - 1)}

\* mkdir(parents=True, exist_ok=True) of a file's parent, then the write
mkdir_parents(dirs_, p) == dirs_ \cup Ancestors(p)

append_file(files, p, data) ==
    [q \in DOMAIN files \cup {p} |->
        IF q = p THEN (IF p \in DOMAIN files THEN files[p] ELSE <<>>) \o data ELSE files[q]]

\* the file at p is created or truncated and holds exactly data afterwards
write_file(files, p, data) ==
    [q \in DOMAIN files \cup {p} |-> IF q = p THEN data ELSE files[q]]

\* ------------------------------------------------- README generator: inputs
LangCodes == {"go", "py"}
SharedTemplate == <<"shared", ".md.jinja">>
GoReadme == packages_dir \o <<"go", "v2", "README.md">>
PyReadme == packages_dir \o <<"py", "README.md">>

\* language-specific configurations: no key, a template, or an output path
LangConfigs ==
    {EmptyMap, "template" :> SharedTemplate, "output_path" :> <<"packages", "py", "README.md">>}

\* the `languages` mapping in document order: pairs <<code, lang_config>>, keys unique
LanguageLists ==
    UNION {{l \in [1..n -> LangCodes \X LangConfigs] :
                \A i, j \in 1..n : i # j => l[i][1] # l[j][1]} : n \in 0..MaxTargets}

BannerMaps == {EmptyMap, "banner_url" :> <<"u", CR>>}
LanguagesMaps == {EmptyMap} \cup {"languages" :> l : l \in LanguageLists}

\* parsed documents that are mappings
Docs == {("version" :> <<"1">>) @@ b @@ l : b \in BannerMaps, l \in LanguagesMaps}

\* A Python value as the generator sees it: None, a non-mapping, or a mapping.
PyValue(kind, doc) == [kind |-> kind, doc |-> doc]
\* what is at scripts/readme_config.yaml: no file, text the YAML parser rejects,
\* or text it parses to None, to an empty mapping, to a list, or to a mapping
ConfigFiles ==
    {PyValue(k, EmptyMap) : k \in {"absent", "yamlerror", "none", "list", "map"}}
        \cup {PyValue("map", d) : d \in Docs}

\* truth value of a Python object
Truthy(v) == v.kind = "list" \/ (v.kind = "map" /\ DOMAIN v.doc # {})

Codes(l) == {l[i][1] : i \in 1..Len(l)}
LangConfigOf(l, code) == l[CHOOSE i \in 1..Len(l) : l[i][1] = code][2]

\* f"{lang_code}.md.jinja"
DefaultTemplate(lang_code) == <<lang_code, ".md.jinja">>
TemplateOf(lang_code, lang_config) == Get(lang_config, "template", DefaultTemplate(lang_code))

Bodies == {<<"a">>, <<"{{banner_url}}", "a">>, <<FailTok>>}

VARIABLES
    cfgFile,        \* scripts/readme_config.yaml
    templates_dir,  \* whether scripts/readme_templates exists
    templates,      \* template name -> body, for the templates in that directory
    guides,         \* <<lang_code, version>> -> stored data of the migration guide
    fs,             \* path -> stored data, for the files that exist
    dirs,           \* the directories that exist
    config,         \* self.config
    jinja_env,      \* self.jinja_env is set
    pc,             \* "idle" or "loop" (inside the loop of process_all_languages)
    runs,           \* invocations of main so far
    args,           \* the arguments of the current (or last) invocation
    queue,          \* the targets the loop has still to process
    all_ok,         \* the loop's all_ok
    ret,            \* what process_all_languages returned: "none", "True", "False"
    exit_code,      \* what main returned: -1 (nothing yet), 0 or 1
    results,        \* history: one record per target processed in this invocation
    start,          \* history: fs and dirs when this invocation began
    prev            \* history: the invocation before this one

readmeVars == <<cfgFile, templates_dir, templates, guides, fs, dirs, config, jinja_env,
                pc, runs, args, queue, all_ok, ret, exit_code, results, start, prev>>

\* the visitor-callback generator (generate_visitor_callbacks.py), one process
VARIABLES
    schemaFile,       \* crates/html-to-markdown-ffi/visitor_callbacks.yaml
    v_template_dir,   \* whether crates/html-to-markdown-ffi/templates exists
    v_templates,      \* template name -> source, for the templates in that directory
    v_fs,             \* path -> stored data, for the files that exist
    v_dirs,           \* the directories that exist
    v_pc,             \* "start", "loop" or "exited"
    v_queue,          \* the targets the loop has still to process
    generated_files,  \* main's generated_files
    v_status,         \* the process's exit status: -1 (running), 0 or 1
    v_attempted,      \* history: the targets generate_code was called for
    v_ctx             \* main's `context`, the one mapping built before the loop

visitorVars == <<schemaFile, v_template_dir, v_templates, v_fs, v_dirs, v_pc, v_queue,
                 generated_files, v_status, v_attempted, v_ctx>>

filterVars == <<snippets, call, hist>>

vars == <<readmeVars, visitorVars, filterVars>>

NoCall == [op |-> "none"]
FiltersIdle == snippets = EmptyMap /\ call = NoCall /\ hist = <<>>

\* ------------------------------------------- README generator: the methods
\* load_config: the new self.config and whether the call raised
load_config(file, cfg) ==
    IF file.kind = "absent" THEN [raised |-> TRUE, config |-> cfg]      \* FileNotFoundError
    ELSE IF file.kind = "yamlerror" THEN [raised |-> TRUE, config |-> cfg]   \* safe_load raised
    ELSE LET parsed == IF file.kind = "none" THEN PyValue("none", EmptyMap) ELSE file
         IN  IF ~Truthy(parsed) THEN [raised |-> TRUE, config |-> parsed]    \* "is empty"
             ELSE IF parsed.kind # "map" THEN [raised |-> TRUE, config |-> parsed]  \* no .get
             ELSE [raised |-> FALSE, config |-> parsed]

\* setup_jinja_env raises when the templates directory does not exist
setup_jinja_env_raises == ~templates_dir

get_template_m(template_name) ==
    IF template_name \notin DOMAIN templates
    THEN [raised |-> "TemplateNotFound", body |-> <<>>]
    ELSE [raised |-> "none", body |-> templates[template_name]]
\* self.jinja_env.get_template(template_name); jinja_env is None until
\* setup_jinja_env has run
get_template(template_name) ==
    IF ~jinja_env THEN [raised |-> "AttributeError", body |-> <<>>]
    ELSE IF template_name \notin DOMAIN templates
         THEN [raised |-> "TemplateNotFound", body |-> <<>>]
         ELSE [raised |-> "none", body |-> templates[template_name]]

\* guide_path.exists() for docs/migration-guides/{lang_code}/{version}.md
has_migration_guide(lang_code, version) == <<lang_code, version>> \in DOMAIN guides

inject_migration_guide_m(lang_code, version) ==
    IF <<lang_code, version>> \notin DOMAIN guides THEN <<>>
    ELSE guides[<<lang_code, version>>]

\* read_text raises for undecodable data; the exception is caught and logged
inject_migration_guide(lang_code, version) ==
    IF <<lang_code, version>> \notin DOMAIN guides THEN <<>>
    ELSE IF undecodable(guides[<<lang_code, version>>]) THEN <<>>
    ELSE read_text(guides[<<lang_code, version>>])

prepare_template_context_m(lang_code, lang_config) ==
    LET current_version == Get(config.doc, "version", <<>>)
        migration_guide == inject_migration_guide(lang_code, current_version)
    IN  [language |-> <<lang_code>>,
         version |-> current_version,
         license |-> Get(config.doc, "license", <<"M", "I", "T">>),
         discord_url |-> Get(config.doc, "discord_url", <<>>),
         banner_url |-> Get(config.doc, "banner_url", <<>>),
         migration_guide |-> migration_guide] @@ lang_config

prepare_template_context(lang_code, lang_config) ==
    LET current_version == Get(config.doc, "version", <<>>)
        migration_guide == inject_migration_guide(lang_code, current_version)
    IN  \* the left operand of @@ wins: the keys of lang_config come last in the dict
        lang_config @@ [language |-> <<lang_code>>,
                        version |-> current_version,
                        license |-> Get(config.doc, "license", <<"M", "I", "T">>),
                        discord_url |-> Get(config.doc, "discord_url", <<>>),
                        banner_url |-> Get(config.doc, "banner_url", <<>>),
                        migration_guide |-> migration_guide]

\* content.rstrip() + "\n"
one_trailing_newline(content) == rstrip(content) \o <<NL>>

writes_m(dry_run) == TRUE
\* `if not dry_run:` guards the write
writes(dry_run) == ~dry_run

store_m(files, p, text) == append_file(files, p, write_text(text))
\* output_path.write_text(content, encoding="utf-8")
store(files, p, text) == write_file(files, p, write_text(text))

generate_readme_m(lang_code, lang_config, output_path, dry_run, F) ==
    LET made == IF writes(dry_run) THEN mkdir_parents(F.dirs, output_path) ELSE F.dirs
        written(content) ==
            IF writes(dry_run)
            THEN [raised |-> "none", content |-> content,
                  fs |-> store(F.fs, output_path, content), dirs |-> made]
            ELSE [raised |-> "none", content |-> content, fs |-> F.fs, dirs |-> F.dirs]
        finished(rendered) ==
            IF rendered.raised
            THEN [raised |-> "Exception", content |-> <<>>, fs |-> F.fs, dirs |-> made]
            ELSE written(one_trailing_newline(rendered.text))
        found(template) ==
            IF template.raised # "none"
            THEN [raised |-> template.raised, content |-> <<>>, fs |-> F.fs, dirs |-> made]
            ELSE With(render(template.body,
                             prepare_template_context(lang_code, lang_config)), finished)
    IN  With(get_template(TemplateOf(lang_code, lang_config)), found)

\* generate_readme on the file system F = [fs, dirs]: the exception raised
\* ("none" when it returns), the content returned, and the file system after
generate_readme(lang_code, lang_config, output_path, dry_run, F) ==
    LET written(content) ==
            IF writes(dry_run)
            THEN [raised |-> "none", content |-> content,
                  fs |-> store(F.fs, output_path, content),
                  dirs |-> mkdir_parents(F.dirs, output_path)]
            ELSE [raised |-> "none", content |-> content, fs |-> F.fs, dirs |-> F.dirs]
        finished(rendered) ==
            IF rendered.raised
            THEN [raised |-> "Exception", content |-> <<>>, fs |-> F.fs, dirs |-> F.dirs]
            ELSE written(one_trailing_newline(rendered.text))
        found(template) ==
            IF template.raised # "none"
            THEN [raised |-> template.raised, content |-> <<>>, fs |-> F.fs, dirs |-> F.dirs]
            ELSE With(render(template.body,
                             prepare_template_context(lang_code, lang_config)), finished)
    IN  With(get_template(TemplateOf(lang_code, lang_config)), found)

same_text_m(generated, existing) == rstrip(generated) = rstrip(existing)
\* `generated == existing`
same_text(generated, existing) == generated = existing

\* validate_readme: the value returned, the file system after, and for the
\* history what it saw: whether the file existed, what generate_readme raised,
\* the generated content and the existing text
validate_readme(lang_code, lang_config, readme_path, F) ==
    LET existing == read_text(F.fs[readme_path])
        compared(g) ==
            IF g.raised # "none"
            THEN [value |-> FALSE, fs |-> g.fs, dirs |-> g.dirs, existed |-> TRUE,
                  raised |-> g.raised, content |-> <<>>, existing |-> <<>>]
            ELSE [value |-> same_text(g.content, existing), fs |-> g.fs, dirs |-> g.dirs,
                  existed |-> TRUE, raised |-> "none", content |-> g.content,
                  existing |-> existing]
    IN  IF readme_path \notin DOMAIN F.fs
        THEN [value |-> FALSE, fs |-> F.fs, dirs |-> F.dirs, existed |-> FALSE,
              raised |-> "none", content |-> <<>>, existing |-> <<>>]
        ELSE With(generate_readme(lang_code, lang_config, readme_path, TRUE, F), compared)

resolve_output_path_m(lang_code, lang_config) ==
    IF lang_code = "go" THEN packages_dir \o <<"go", "v2", "README.md">>
    ELSE IF "output_path" \in DOMAIN lang_config
         THEN project_root \o lang_config["output_path"]
         ELSE packages_dir \o <<lang_code, "README.md">>

resolve_output_path(lang_code, lang_config) ==
    IF "output_path" \in DOMAIN lang_config
    THEN project_root \o lang_config["output_path"]
    ELSE IF lang_code = "go" THEN packages_dir \o <<"go", "v2", "README.md">>
    ELSE packages_dir \o <<lang_code, "README.md">>

\* one iteration of the loop of process_all_languages, for the pair
\* entry = <<lang_code, lang_config>> under the arguments a
process_language(entry, a, F) ==
    LET lang_code == entry[1]
        lang_config == entry[2]
        readme_path == resolve_output_path(lang_code, lang_config)
        validated(v) ==
            [ok |-> v.value, fs |-> v.fs, dirs |-> v.dirs,
             res |-> [code |-> lang_code, path |-> readme_path, ok |-> v.value,
                      existed |-> v.existed, raised |-> v.raised,
                      content |-> v.content, existing |-> v.existing]]
        generated(g) ==
            [ok |-> g.raised = "none", fs |-> g.fs, dirs |-> g.dirs,
             res |-> [code |-> lang_code, path |-> readme_path, ok |-> g.raised = "none",
                      existed |-> readme_path \in DOMAIN F.fs, raised |-> g.raised,
                      content |-> g.content, existing |-> <<>>]]
    IN  IF a.validate_only
        THEN With(validate_readme(lang_code, lang_config, readme_path, F), validated)
        ELSE With(generate_readme(lang_code, lang_config, readme_path, a.dry_run, F),
                  generated)

remaining_m(targets, ok) == IF ok THEN Tail(targets) ELSE <<>>
\* the for loop goes on to the next pair whatever the iteration did
remaining(targets, ok) == Tail(targets)

accumulate_m(ok_so_far, ok) == ok
\* all_ok stays True only while every iteration succeeds
accumulate(ok_so_far, ok) == ok_so_far /\ ok

\* what process_all_languages does before its loop: it raises (self.config has
\* no .get), returns False at once, or has the pairs it will iterate over
select_languages_m(cfg, language_filter) ==
    IF ~Truthy(cfg) THEN [raised |-> FALSE, returns |-> TRUE, languages |-> <<>>]
    ELSE IF cfg.kind # "map" THEN [raised |-> TRUE, returns |-> FALSE, languages |-> <<>>]
    ELSE LET languages == Get(cfg.doc, "languages", <<>>)
         IN  IF language_filter # "" /\ language_filter \notin Codes(languages)
             THEN [raised |-> FALSE, returns |-> TRUE, languages |-> <<>>]
             ELSE [raised |-> FALSE, returns |-> FALSE, languages |-> languages]

select_languages(cfg, language_filter) ==
    IF ~Truthy(cfg) THEN [raised |-> FALSE, returns |-> TRUE, languages |-> <<>>]
    ELSE IF cfg.kind # "map" THEN [raised |-> TRUE, returns |-> FALSE, languages |-> <<>>]
    ELSE LET languages == Get(cfg.doc, "languages", <<>>)
         IN  IF language_filter # ""
             THEN IF language_filter \notin Codes(languages)
                  THEN [raised |-> FALSE, returns |-> TRUE, languages |-> <<>>]
                  ELSE [raised |-> FALSE, returns |-> FALSE,
                        languages |-> <<<<language_filter,
                                          LangConfigOf(languages, language_filter)>>>>]
             ELSE [raised |-> FALSE, returns |-> FALSE, languages |-> languages]

\* the loop of process_all_languages run to its end: language_loop takes the
\* pairs still to process, iterated takes the outcome r of the iteration made
\* for the first of them
RECURSIVE language_loop(_, _, _, _)
RECURSIVE iterated(_, _, _, _)
collected(res, rest) ==
    [fs |-> rest.fs, dirs |-> rest.dirs, results |-> <<res>> \o rest.results,
     all_ok |-> rest.all_ok]
iterated(languages, a, r, ok_so_far) ==
    collected(r.res, language_loop(remaining(languages, r.ok), a,
                                   [fs |-> r.fs, dirs |-> r.dirs],
                                   accumulate(ok_so_far, r.ok)))
language_loop(languages, a, F, ok_so_far) ==
    IF languages = <<>>
    THEN [fs |-> F.fs, dirs |-> F.dirs, results |-> <<>>, all_ok |-> ok_so_far]
    ELSE iterated(languages, a, process_language(Head(languages), a, F), ok_so_far)

\* `return all_ok` after the loop
returned(run) ==
    [raised |-> FALSE, ret |-> IF run.all_ok THEN "True" ELSE "False",
     results |-> run.results, fs |-> run.fs, dirs |-> run.dirs]
\* process_all_languages once the checks before its loop gave sel
selected(sel, a, F) ==
    IF sel.raised
    THEN [raised |-> TRUE, ret |-> "none", results |-> <<>>, fs |-> F.fs, dirs |-> F.dirs]
    ELSE IF sel.returns
    THEN [raised |-> FALSE, ret |-> "False", results |-> <<>>, fs |-> F.fs, dirs |-> F.dirs]
    ELSE returned(language_loop(sel.languages, a, F, TRUE))
\* process_all_languages as one call: whether it raised, the value returned
\* ("none" when it raised), the targets' results and the file system after
process_all_languages(cfg, a, F) == selected(select_languages(cfg, a.language_filter), a, F)

main_result_m(raised, success) == IF raised THEN 0 ELSE IF success THEN 0 ELSE 1
\* main returns 0 if success else 1, and 1 when anything raised
main_result(raised, success) == IF raised THEN 1 ELSE IF success THEN 0 ELSE 1

\* --------------------------------------- README generator: the state machine
Args == [language_filter : {"", "go"}, dry_run : BOOLEAN, validate_only : BOOLEAN]
NoArgs == [language_filter |-> "", dry_run |-> FALSE, validate_only |-> FALSE]
NoRun == [ran |-> FALSE, args |-> NoArgs, ret |-> "none", results |-> <<>>]

\* the templates a document refers to
Referenced(file) ==
    LET l == Get(file.doc, "languages", <<>>)
    IN  {TemplateOf(l[i][1], l[i][2]) : i \in 1..Len(l)}

InitialFiles == {EmptyMap} \cup {PyReadme :> d : d \in {<<"a">>, <<"a", NL>>}}

ReadmeInit ==
    /\ cfgFile \in ConfigFiles
    /\ templates_dir \in BOOLEAN
    /\ templates \in IF templates_dir
                     THEN UNION {[S -> Bodies] : S \in SUBSET Referenced(cfgFile)}
                     ELSE {EmptyMap}
    /\ guides = EmptyMap
    /\ fs \in InitialFiles
    /\ dirs = UNION {Ancestors(p) : p \in DOMAIN fs}
    /\ config = PyValue("map", EmptyMap)
    /\ jinja_env = FALSE
    /\ pc = "idle"
    /\ runs = 0
    /\ args = NoArgs
    /\ queue = <<>>
    /\ all_ok = TRUE
    /\ ret = "none"
    /\ exit_code = -1
    /\ results = <<>>
    /\ start = [fs |-> fs, dirs |-> dirs]
    /\ prev = NoRun

\* the visitor-callback generator is not run
VisitorIdle ==
    /\ schemaFile = PyValue("absent", EmptyMap)
    /\ v_template_dir = FALSE
    /\ v_templates = EmptyMap
    /\ v_fs = EmptyMap
    /\ v_dirs = {}
    /\ v_pc = "start"
    /\ v_queue = <<>>
    /\ generated_files = <<>>
    /\ v_status = -1
    /\ v_attempted = <<>>
    /\ v_ctx = EmptyMap

\* main up to the loop of process_all_languages: load_config, setup_jinja_env,
\* and the checks process_all_languages makes before it iterates
Main(a) ==
    /\ pc = "idle"
    /\ runs < MaxRuns
    /\ runs' = runs + 1
    /\ args' = a
    /\ start' = [fs |-> fs, dirs |-> dirs]
    /\ results' = <<>>
    /\ prev' = IF runs = 0 THEN NoRun
               ELSE [ran |-> TRUE, args |-> args, ret |-> ret, results |-> results]
    /\ all_ok' = TRUE
    /\ LET l == load_config(cfgFile, config)
           sel == select_languages(l.config, a.language_filter)
       IN  /\ config' = l.config
           /\ IF l.raised
              THEN /\ jinja_env' = jinja_env
                   /\ queue' = <<>> /\ ret' = "none" /\ pc' = "idle"
                   /\ exit_code' = main_result(TRUE, FALSE)
              ELSE IF setup_jinja_env_raises
              THEN /\ jinja_env' = jinja_env
                   /\ queue' = <<>> /\ ret' = "none" /\ pc' = "idle"
                   /\ exit_code' = main_result(TRUE, FALSE)
              ELSE /\ jinja_env' = TRUE
                   /\ IF sel.raised
                      THEN /\ queue' = <<>> /\ ret' = "none" /\ pc' = "idle"
                           /\ exit_code' = main_result(TRUE, FALSE)
                      ELSE IF sel.returns
                      THEN /\ queue' = <<>> /\ ret' = "False" /\ pc' = "idle"
                           /\ exit_code' = main_result(FALSE, FALSE)
                      ELSE /\ queue' = sel.languages /\ ret' = "none" /\ pc' = "loop"
                           /\ exit_code' = -1
    /\ UNCHANGED <<cfgFile, templates_dir, templates, guides, fs, dirs>>
    /\ UNCHANGED <<visitorVars, filterVars>>

\* one iteration of `for lang_code, lang_config in languages.items()`
ProcessLanguage ==
    LET Processed(r) ==
            /\ fs' = r.fs
            /\ dirs' = r.dirs
            /\ all_ok' = accumulate(all_ok, r.ok)
            /\ results' = Append(results, r.res)
            /\ queue' = remaining(queue, r.ok)
    IN  /\ pc = "loop"
        /\ queue # <<>>
        /\ \E r \in {process_language(Head(queue), args, [fs |-> fs, dirs |-> dirs])} :
              Processed(r)
        /\ UNCHANGED <<cfgFile, templates_dir, templates, guides, config, jinja_env,
                       pc, runs, args, ret, exit_code, start, prev>>
        /\ UNCHANGED <<visitorVars, filterVars>>

\* `return all_ok`, and main's `return 0 if success else 1`
Return ==
    /\ pc = "loop"
    /\ queue = <<>>
    /\ ret' = IF all_ok THEN "True" ELSE "False"
    /\ exit_code' = main_result(FALSE, all_ok)
    /\ pc' = "idle"
    /\ UNCHANGED <<cfgFile, templates_dir, templates, guides, fs, dirs, config, jinja_env,
                   runs, args, queue, all_ok, results, start, prev>>
    /\ UNCHANGED <<visitorVars, filterVars>>

Init == ReadmeInit /\ VisitorIdle /\ FiltersIdle

Next ==
    \/ \E a \in Args : Main(a)
    \/ ProcessLanguage
    \/ Return

Spec == Init /\ [][Next]_vars

\* ------------------------------------------------ README generator: claims
\* main has returned
Finished == pc = "idle" /\ runs > 0
\* process_all_languages was called and went through its loop
Looped == Finished /\ ret # "none" /\ ~select_languages(config, args.language_filter).returns
\* the targets the invocation was to process
Targets == select_languages(config, args.language_filter).languages
CodesOf(seq) == [i \in 1..Len(seq) |-> seq[i][1]]
Attempted == [i \in 1..Len(results) |-> results[i].code]
Generating(a) == ~a.validate_only /\ ~a.dry_run

\* the render of the target raised (template not found, or a render error)
RenderFailed(r) == r.raised \in {"TemplateNotFound", "Exception"}
FailedCodes == {results[i].code : i \in {j \in 1..Len(results) : RenderFailed(results[j])}}

\* the loop over a list of pairs, from the file system F
RECURSIVE RunLanguages(_, _, _)
RunLanguages(languages, a, F) ==
    IF languages = <<>> THEN [fs |-> F.fs, dirs |-> F.dirs, results |-> <<>>]
    ELSE LET r == process_language(Head(languages), a, F)
             rest == RunLanguages(Tail(languages), a, [fs |-> r.fs, dirs |-> r.dirs])
         IN  [fs |-> rest.fs, dirs |-> rest.dirs, results |-> <<r.res>> \o rest.results]

NotFailedPair(entry) == entry[1] \notin FailedCodes
NotFailedResult(r) == ~RenderFailed(r)

\* C1: when the render of a target raises, only that target is marked failed:
\* every configured target is attempted, once and in order, and the other
\* targets' results and the file system are those of the same run without the
\* failing targets.
C1_FailureIsolated ==
    (Looped /\ FailedCodes # {}) =>
        /\ Attempted = CodesOf(Targets)
        /\ \A i \in 1..Len(results) : RenderFailed(results[i]) => ~results[i].ok
        /\ LET without == RunLanguages(SelectSeq(Targets, NotFailedPair), args, start)
           IN  /\ without.results = SelectSeq(results, NotFailedResult)
               /\ without.fs = fs
               /\ without.dirs = dirs

\* a failing target came first and a later target was still generated and written
C1_Witness ==
    /\ Looped /\ Generating(args)
    /\ Len(results) = 2
    /\ RenderFailed(results[1])
    /\ results[2].ok /\ ~results[2].existed
    /\ results[2].path \in DOMAIN fs

\* a target succeeded: its render raised nothing and, in validate mode, the
\* existing file's text equals the rendered text
Succeeded(r) ==
    IF args.validate_only
    THEN r.existed /\ r.raised = "none" /\ r.existing = r.content
    ELSE r.raised = "none"
AllSucceeded == \A i \in 1..Len(results) : Succeeded(results[i])

\* C2 as stated: the run's result is True (exit code 0) if and only if every
\* processed target succeeded.
C2_Original ==
    (Finished /\ ret # "none") =>
        /\ (ret = "True") <=> AllSucceeded
        /\ (exit_code = 0) <=> AllSucceeded

\* C2 amended: process_all_languages returns True if and only if it reached
\* its loop (the language filter, if given, names a configured language) and
\* every processed target succeeded; main returns 0 exactly when
\* process_all_languages returned True, and 1 otherwise.
C2_ResultIsConjunction ==
    Finished =>
        /\ (ret # "none") => ((ret = "True") <=> (Looped /\ AllSucceeded))
        /\ Looped => Attempted = CodesOf(Targets)
        /\ (exit_code = 0) <=> (ret = "True")
        /\ exit_code \in {0, 1}

\* the first target failed, the last one succeeded, and the result is False
C2_Witness ==
    /\ Looped
    /\ Len(results) = 2
    /\ ~Succeeded(results[1])
    /\ Succeeded(results[2])
    /\ ret = "False" /\ exit_code = 1

\* this invocation follows one that generated (no dry run) the same targets
AfterGenerate ==
    /\ Finished /\ prev.ran
    /\ Generating(prev.args)
    /\ prev.args.language_filter = args.language_filter

\* C3 as stated: a validate run right after a generate run in which every
\* target succeeded reports every target up to date.
C3_RoundTrip ==
    (AfterGenerate /\ prev.ret = "True" /\ args.validate_only) => ret = "True"

\* C4: an invocation in validate mode or in dry-run mode leaves every file
\* and every directory as it found them.
C4_NoWrites ==
    (args.validate_only \/ args.dry_run) => (fs = start.fs /\ dirs = start.dirs)

\* a dry run rendered a target whose output file does not exist
C4_Witness ==
    /\ Looped /\ args.dry_run /\ ~args.validate_only
    /\ \E i \in 1..Len(results) :
          /\ results[i].raised = "none"
          /\ results[i].path \notin DOMAIN fs

\* the target is out of date: its file is missing, or the file's text is not
\* the rendered text
Stale(r) == ~r.existed \/ (r.raised = "none" /\ r.existing # r.content)

\* C5: in validate mode a target whose file is missing or differs from the
\* rendered text is reported out of date, the remaining targets are still
\* processed, and the overall result is False.
C5_StaleReported ==
    args.validate_only =>
        /\ \A i \in 1..Len(results) : Stale(results[i]) => ~results[i].ok
        /\ Looped => /\ Attempted = CodesOf(Targets)
                     /\ (\E i \in 1..Len(results) : Stale(results[i])) => ret = "False"

\* one target's file is missing, the next one's differs from the rendered text
C5_Witness ==
    /\ Looped /\ args.validate_only
    /\ Len(results) = 2
    /\ ~results[1].existed
    /\ results[2].existed /\ results[2].raised = "none"
    /\ results[2].existing # results[2].content
    /\ ret = "False"

\* the configuration file is absent, is not YAML, or is an empty document
Unloadable(file) == file.kind \in {"absent", "yamlerror", "none"} \/ ~Truthy(file)

\* C6: with such a configuration file main returns 1 and no target is
\* rendered, validated or written.
C6_ConfigErrorFatal ==
    (Finished /\ Unloadable(cfgFile)) =>
        /\ exit_code = 1
        /\ ret = "none"
        /\ results = <<>>
        /\ fs = start.fs /\ dirs = start.dirs

\* main has returned on an empty document
C6_Witness == Finished /\ cfgFile.kind = "none" /\ exit_code = 1

\* C8 as stated: a non-empty configuration without a `languages` key makes
\* main return a non-zero exit code.
C8_LanguagesRequired ==
    (Finished /\ cfgFile.kind = "map" /\ Truthy(cfgFile)
        /\ "languages" \notin DOMAIN cfgFile.doc) => exit_code # 0

\* C10: when generate runs twice in succession every target gets the same
\* content on both runs, and the second run leaves every output file (and
\* directory) as the first run left it.
C10_Idempotent ==
    (AfterGenerate /\ Generating(args)) =>
        /\ Len(results) = Len(prev.results)
        /\ \A i \in 1..Len(results) :
              /\ results[i].code = prev.results[i].code
              /\ results[i].raised = prev.results[i].raised
              /\ results[i].content = prev.results[i].content
        /\ fs = start.fs
        /\ dirs = start.dirs

\* the first run created a file and the second run generated it again
C10_Witness ==
    /\ AfterGenerate /\ Generating(args) /\ Looped
    /\ \E i \in 1..Len(results) :
          /\ results[i].raised = "none"
          /\ ~prev.results[i].existed
          /\ results[i].existed

\* the iteration made by this step, in generate mode, ended in an exception
FailedIteration ==
    /\ pc = "loop" /\ queue # <<>> /\ Generating(args)
    /\ Len(results') = Len(results) + 1
    /\ results'[Len(results')].raised # "none"

\* C29: in generate mode an iteration whose template lookup or render raises
\* leaves the target's output file and its parent directory as they were,
\* neither created nor modified: the step changes no file and no directory.
C29_FailedGenerationWritesNothing ==
    [][FailedIteration =>
           LET path == results'[Len(results')].path
           IN  /\ (path \in DOMAIN fs') = (path \in DOMAIN fs)
               /\ path \in DOMAIN fs => fs'[path] = fs[path]
               /\ Ancestors(path) \cap dirs' = Ancestors(path) \cap dirs
               /\ fs' = fs
               /\ dirs' = dirs]_vars

\* a generate run in which a template lookup failed for a target whose file
\* and directory did not exist and a render failed for a target whose file
\* did: neither is there after the first, the second holds what it held
C29_Witness ==
    /\ Generating(args) /\ pc = "loop"
    /\ \E i, j \in 1..Len(results) :
          /\ results[i].raised = "TemplateNotFound"
          /\ ~results[i].existed
          /\ results[i].path \notin DOMAIN fs
          /\ Ancestors(results[i].path) \cap dirs = Ancestors(results[i].path) \cap start.dirs
          /\ results[j].raised = "Exception"
          /\ results[j].existed
          /\ fs[results[j].path] = start.fs[results[j].path]

\* ---------------------------------------------- visitor-callback generator
RequiredKeys == {"version", "metadata", "types", "callbacks", "generation"}

\* load_schema: whether it raises on the file (not found, not YAML, not a
\* container to look keys up in, or a required key missing)
load_schema_raises(file) ==
    \/ file.kind \in {"absent", "yamlerror", "none"}
    \/ \E key \in RequiredKeys : key \notin DOMAIN file.doc

\* setup_jinja_env(template_dir) raises when the directory does not exist
v_setup_jinja_env_raises == ~v_template_dir

\* Path(lang_config["template"]).name
BaseName(p) == p[Len(p)]

\* the environment is built without keep_trailing_newline: a single newline
\* at the end of the template source is dropped
strip_one_newline(source) ==
    IF source # <<>> /\ source[Len(source)] = NL
    THEN SubSeq(source, 1, Len(source) - 1)
    ELSE source

\* generate_code on the file system F = [fs, dirs]: whether it raised, the
\* file system after, and the caller's context as the render left it
generate_code(template_name, output_path, context, F) ==
    IF template_name \notin DOMAIN v_templates
    THEN [raised |-> TRUE, fs |-> F.fs, dirs |-> F.dirs, context |-> context]
    ELSE With(render(strip_one_newline(v_templates[template_name]), context),
              LAMBDA rendered :
                  IF rendered.raised
                  THEN [raised |-> TRUE, fs |-> F.fs, dirs |-> F.dirs,
                        context |-> rendered.context]
                  ELSE [raised |-> FALSE,
                        fs |-> write_file(F.fs, output_path, write_text(rendered.text)),
                        dirs |-> mkdir_parents(F.dirs, output_path),
                        context |-> rendered.context])

\* the context main prepares from a validated schema
v_context(schema) ==
    [version |-> schema["version"], metadata |-> schema["metadata"],
     types |-> schema["types"], callbacks |-> schema["callbacks"]]

\* inputs
TargetNames == {"rust", "go"}
TargetConfig(name) ==
    [template |-> <<"templates", name>>, output_file |-> <<"generated", name>>]
TargetLists ==
    UNION {{l \in [1..n -> {<<t, TargetConfig(t)>> : t \in TargetNames}] :
                \A i, j \in 1..n : i # j => l[i][1] # l[j][1]} : n \in 0..MaxTargets}
MetadataMaps ==
    {a @@ b : a \in {EmptyMap, "total_callbacks" :> <<"2">>},
              b \in {EmptyMap, "expected_reduction" :> ("rust" :> <<"r">>)}}
GenerationMaps == {EmptyMap} \cup {"targets" :> l : l \in TargetLists}
FullSchemas ==
    {[version |-> <<"1">>, metadata |-> m, types |-> <<"t">>, callbacks |-> <<"c">>,
      generation |-> g] : m \in MetadataMaps, g \in GenerationMaps}
Restrict(f, S) == [k \in S |-> f[k]]
\* schemas with every top-level key, or with one of them missing
SchemaDocs ==
    FullSchemas \cup {Restrict(d, RequiredKeys \ {k}) : d \in FullSchemas, k \in RequiredKeys}
SchemaFiles ==
    {PyValue(k, EmptyMap) : k \in {"absent", "yamlerror", "none"}}
        \cup {PyValue("map", d) : d \in SchemaDocs}
VBodies == {<<"a">>, <<"{{version}}", NL>>, <<FailTok>>, <<PopTok>>}

TargetsOf(file) ==
    IF "generation" \in DOMAIN file.doc
    THEN Get(file.doc["generation"], "targets", <<>>)
    ELSE <<>>
VReferenced(file) ==
    LET l == TargetsOf(file) IN {BaseName(l[i][2]["template"]) : i \in 1..Len(l)}

VisitorInit ==
    /\ schemaFile \in SchemaFiles
    /\ v_template_dir \in BOOLEAN
    /\ v_templates \in IF v_template_dir
                       THEN UNION {[S -> VBodies] : S \in SUBSET VReferenced(schemaFile)}
                       ELSE {EmptyMap}
    /\ v_fs = EmptyMap
    /\ v_dirs = {}
    /\ v_pc = "start"
    /\ v_queue = <<>>
    /\ generated_files = <<>>
    /\ v_status = -1
    /\ v_attempted = <<>>
    /\ v_ctx = EmptyMap

\* the README generator is not run
ReadmeIdle ==
    /\ cfgFile = PyValue("absent", EmptyMap)
    /\ templates_dir = FALSE
    /\ templates = EmptyMap
    /\ guides = EmptyMap
    /\ fs = EmptyMap
    /\ dirs = {}
    /\ config = PyValue("map", EmptyMap)
    /\ jinja_env = FALSE
    /\ pc = "idle"
    /\ runs = 0
    /\ args = NoArgs
    /\ queue = <<>>
    /\ all_ok = TRUE
    /\ ret = "none"
    /\ exit_code = -1
    /\ results = <<>>
    /\ start = [fs |-> fs, dirs |-> dirs]
    /\ prev = NoRun

\* main up to its loop: load_schema, setup_jinja_env, the context, and the
\* look-ups of generation.targets and metadata.total_callbacks; an exception
\* that main does not catch ends the process with status 1 as sys.exit(1) does
VisitorStart ==
    /\ v_pc = "start"
    /\ IF \/ load_schema_raises(schemaFile)
          \/ v_setup_jinja_env_raises
          \/ "targets" \notin DOMAIN schemaFile.doc["generation"]
          \/ "total_callbacks" \notin DOMAIN schemaFile.doc["metadata"]
       THEN v_pc' = "exited" /\ v_status' = 1 /\ v_queue' = <<>> /\ v_ctx' = v_ctx
       ELSE v_pc' = "loop" /\ v_status' = -1
            /\ v_queue' = schemaFile.doc["generation"]["targets"]
            /\ v_ctx' = v_context(schemaFile.doc)
    /\ UNCHANGED <<schemaFile, v_template_dir, v_templates, v_fs, v_dirs,
                   generated_files, v_attempted>>
    /\ UNCHANGED <<readmeVars, filterVars>>

\* one iteration of `for lang_name, lang_config in targets.items()`
VisitorGenerate ==
    /\ v_pc = "loop"
    /\ v_queue # <<>>
    /\ LET lang_config == Head(v_queue)[2]
           template_file == BaseName(lang_config["template"])
           output_file == project_root \o lang_config["output_file"]
       IN  \E g \in {generate_code(template_file, output_file, v_ctx,
                                   [fs |-> v_fs, dirs |-> v_dirs])} :
           /\ v_fs' = g.fs
           /\ v_ctx' = g.context
           /\ v_dirs' = g.dirs
           /\ v_attempted' = Append(v_attempted, Head(v_queue)[1])
           /\ IF g.raised
              THEN /\ v_pc' = "exited" /\ v_status' = 1      \* sys.exit(1)
                   /\ UNCHANGED <<generated_files, v_queue>>
              ELSE /\ generated_files' = Append(generated_files, output_file)
                   /\ v_queue' = Tail(v_queue)
                   /\ UNCHANGED <<v_pc, v_status>>
    /\ UNCHANGED <<schemaFile, v_template_dir, v_templates>>
    /\ UNCHANGED <<readmeVars, filterVars>>

\* the summary after the loop, which reads metadata.expected_reduction
VisitorSummary ==
    /\ v_pc = "loop"
    /\ v_queue = <<>>
    /\ v_pc' = "exited"
    /\ v_status' = IF "expected_reduction" \in DOMAIN schemaFile.doc["metadata"] THEN 0 ELSE 1
    /\ UNCHANGED <<schemaFile, v_template_dir, v_templates, v_fs, v_dirs, v_queue,
                   generated_files, v_attempted, v_ctx>>
    /\ UNCHANGED <<readmeVars, filterVars>>

VisitorNext == VisitorStart \/ VisitorGenerate \/ VisitorSummary

VisitorSpecInit == VisitorInit /\ ReadmeIdle /\ FiltersIdle

SpecVisitor == VisitorSpecInit /\ [][VisitorNext]_vars

\* ------------------------------------- visitor-callback generator: claims
VisitorExited == v_pc = "exited"

\* a required part of the Schema Document is missing
LacksRequiredPart(file) ==
    \/ file.kind # "map"
    \/ \E key \in RequiredKeys : key \notin DOMAIN file.doc
    \/ "total_callbacks" \notin DOMAIN file.doc["metadata"]
    \/ "expected_reduction" \notin DOMAIN file.doc["metadata"]
    \/ "targets" \notin DOMAIN file.doc["generation"]

\* C7 as stated: a schema that lacks a required part makes the run fail
\* before any target is attempted: no target is processed, no file written.
C7_SchemaValidatedFirst ==
    (VisitorExited /\ LacksRequiredPart(schemaFile)) =>
        /\ v_status = 1
        /\ v_attempted = <<>>
        /\ v_fs = EmptyMap
        /\ v_dirs = {}

\* C9 as stated: a failure while generating one target does not end the
\* loop: when the process exits after reaching the loop, generate_code has
\* been called for every configured target.
C9_NoShortCircuit ==
    (VisitorExited /\ v_attempted # <<>>) =>
        v_attempted = CodesOf(TargetsOf(schemaFile))

\* the language codes of the loaded configuration's `languages` mapping
ConfiguredCodes ==
    IF config.kind = "map" /\ "languages" \in DOMAIN config.doc
    THEN {config.doc["languages"][i][1] : i \in 1..Len(config.doc["languages"])}
    ELSE {}

\* every file but the one at path p is as it was when the invocation started
OnlyTouched(p) ==
    /\ DOMAIN fs \ {p} = DOMAIN start.fs \ {p}
    /\ \A q \in DOMAIN fs \ {p} : fs[q] = start.fs[q]
    /\ dirs \subseteq start.dirs \cup Ancestors(p)

C22_DistinctOutputPaths ==
    Looped =>
        \A i, j \in 1..Len(results) :
            i < j =>
                /\ results[i].path # results[j].path
                /\ (Generating(args) /\ results[i].raised = "none") =>
                       fs[results[i].path] = write_text(results[i].content)

\* C23 as stated, for the visitor-callback generator: the context handed to
\* a target's render is a fresh one, as built from the schema, whatever the
\* renders of the earlier targets did; rendering one target does not change
\* what the next target's render observes.
C23_FreshContext ==
    (v_pc = "loop" /\ v_queue # <<>>) => v_ctx = v_context(schemaFile.doc)

\* the text ends in exactly one newline, with no other whitespace before it
OneTrailingNewline(text) ==
    /\ text # <<>>
    /\ text[Len(text)] = NL
    /\ Len(text) >= 2 => text[Len(text) - 1] \notin Whitespace

\* the same frame for the visitor generator: the call of generate_code that
\* raises (the run then exits with status 1) changes no file and no directory
VisitorFailureWritesNothing ==
    [][(v_pc = "loop" /\ v_queue # <<>> /\ v_pc' = "exited" /\ v_status' = 1) =>
           (v_fs' = v_fs /\ v_dirs' = v_dirs)]_vars

\* C11 as stated, for the visitor-callback generator: every file that
\* generate_code has written ends in exactly one trailing newline with no
\* other trailing whitespace before it.
C11_OneTrailingNewline ==
    \A p \in DOMAIN v_fs : OneTrailingNewline(v_fs[p])

\* ================================================= PerformanceTableRenderer
\* The literal pieces of the f-strings are one token each (BQ is a backtick,
\* a star between blanks the bullet).  The values of the data are Python
\* values: PyValue("str", text), or PyValue("int", digits) for a non-negative
\* int, kept as the text of its decimal digits.

\* format(n, ",") of a non-negative int: groups of three digits from the right
RECURSIVE commas(_)
commas(d) ==
    IF Len(d) <= 3 THEN d
    ELSE commas(SubSeq(d, 1, Len(d) - 3)) \o <<",">> \o SubSeq(d, Len(d) - 2, Len(d))

\* the replacement field {value}: str(value)
format(v) == v.doc

\* The replacement fields bench[k] of one row, for k in keys from left to
\* right, joined by " | "; ops_sec carries the format {:,}.  A missing key
\* raises KeyError, a string under {:,} raises ValueError.
RECURSIVE cells(_, _)
cells(bench, keys) ==
    LET k == Head(keys)
    IN  IF k \notin DOMAIN bench THEN [raised |-> "KeyError", text |-> <<>>]
        ELSE IF k = "ops_sec" /\ bench[k].kind # "int"
             THEN [raised |-> "ValueError", text |-> <<>>]
        ELSE LET cell == IF k = "ops_sec" THEN commas(bench[k].doc) ELSE format(bench[k])
             IN  IF Len(keys) = 1 THEN [raised |-> "none", text |-> cell]
                 ELSE LET rest == cells(bench, Tail(keys))
                      IN  IF rest.raised # "none" THEN rest
                          ELSE [raised |-> "none", text |-> cell \o <<" | ">> \o rest.text]

\* the loop `for bench in benchmarks: table += ...`
RECURSIVE table_rows(_, _)
table_rows(benchmarks, keys) ==
    IF benchmarks = <<>> THEN [raised |-> "none", text |-> <<>>]
    ELSE LET row == cells(Head(benchmarks), keys)
         IN  IF row.raised # "none" THEN row
             ELSE LET rest == table_rows(Tail(benchmarks), keys)
                  IN  IF rest.raised # "none" THEN rest
                      ELSE [raised |-> "none",
                            text |-> <<"| ">> \o row.text \o <<" |", NL>> \o rest.text]

LatencyHeader ==
    <<"| Document | Size | Latency | Throughput |", NL,
      "| -------- | ---- | ------- | ---------- |", NL>>
OpsThroughputHeader ==
    <<"| Document | Size | Ops/sec | Throughput |", NL,
      "| -------- | ---- | ------- | ---------- |", NL>>
OpsHeader ==
    <<"| Document | Size | Ops/sec |", NL,
      "| -------- | ---- | ------- |", NL>>

prepend(head, rows) ==
    IF rows.raised # "none" THEN rows
    ELSE [raised |-> "none", text |-> head \o rows.text]

render_latency_table(benchmarks) ==
    prepend(LatencyHeader, table_rows(benchmarks, <<"name", "size", "latency", "throughput">>))

render_ops_sec_table(benchmarks) ==
    LET has_throughput == "throughput" \in DOMAIN benchmarks[1]
    IN  IF has_throughput
        THEN prepend(OpsThroughputHeader,
                     table_rows(benchmarks, <<"name", "size", "ops_sec", "throughput">>))
        ELSE prepend(OpsHeader, table_rows(benchmarks, <<"name", "size", "ops_sec">>))

Str(text) == PyValue("str", text)

\* the line above the table: platform, note, function and runtime
perf_header(perf_data, runtime) ==
    LET platform == Get(perf_data, "platform", Str(<<"Unknown">>))
        function == Get(perf_data, "function", Str(<<"convert()">>))
        note == Get(perf_data, "note", Str(<<>>))
    IN  format(platform) \o <<" * ">> \o format(note) \o <<" * ", "BQ">> \o format(function)
        \o <<"BQ", " (">> \o runtime \o <<")", NL, NL>>

perf_render_m(perf_data, runtime) ==
    IF perf_data = EmptyMap \/ "benchmarks" \notin DOMAIN perf_data
    THEN [raised |-> "none", text |-> <<>>]
    ELSE LET benchmarks == perf_data["benchmarks"]
             header == perf_header(perf_data, runtime)
         IN  IF benchmarks = <<>>
             THEN [raised |-> "none",
                   text |-> header \o <<NL, "(No benchmarks available)", NL>>]
             ELSE IF "ops_sec" \in DOMAIN benchmarks[1]
                  THEN prepend(header, render_ops_sec_table(benchmarks))
             ELSE IF "latency" \in DOMAIN benchmarks[1]
                  THEN prepend(header, render_latency_table(benchmarks))
             ELSE [raised |-> "none",
                   text |-> header \o <<NL, "(Unknown benchmark format)", NL>>]

\* PerformanceTableRenderer.render
perf_render(perf_data, runtime) ==
    IF perf_data = EmptyMap \/ "benchmarks" \notin DOMAIN perf_data
    THEN [raised |-> "none", text |-> <<>>]
    ELSE LET benchmarks == perf_data["benchmarks"]
             header == perf_header(perf_data, runtime)
         IN  IF benchmarks = <<>>
             THEN [raised |-> "none",
                   text |-> header \o <<NL, "(No benchmarks available)", NL>>]
             ELSE LET first_bench == benchmarks[1]
                      uses_latency == "latency" \in DOMAIN first_bench
                      uses_ops_sec == "ops_sec" \in DOMAIN first_bench
                  IN  IF uses_latency THEN prepend(header, render_latency_table(benchmarks))
                      ELSE IF uses_ops_sec
                           THEN prepend(header, render_ops_sec_table(benchmarks))
                      ELSE [raised |-> "none",
                            text |-> header \o <<NL, "(Unknown benchmark format)", NL>>]

\* ===================================================== functions called alone
\* Each action is one call of a function with arguments drawn from a bounded
\* set; call keeps the arguments and the result.
otherVars == <<readmeVars, visitorVars, snippets, hist>>

\* ------------------------------------------------------ resolve_output_path
PathCodes == LangCodes \cup {"rb"}
PathConfigs ==
    LangConfigs \cup
    { "output_path" :> <<"docs", "README.md">>,
      "output_path" :> GoReadme,
      ("template" :> SharedTemplate) @@ ("output_path" :> <<"docs", "README.md">>) }

ResolveOutputPath ==
    /\ call = NoCall
    /\ \E lang_code \in PathCodes, lang_config \in PathConfigs :
          /\ call' = [op |-> "resolve_output_path",
                      in |-> [lang_code |-> lang_code, lang_config |-> lang_config],
                      out |-> resolve_output_path(lang_code, lang_config)]
          /\ UNCHANGED otherVars

\* ------------------------------------------------------- extract_code_block
Seqs(S, n) == UNION {[1..k -> S] : k \in 0..n}
MdChars == {FENCE, "p", NL, SP} \cup TitleAttrs

\* markdown with two fenced blocks: text, a block, text, a second block whose
\* tag and inner text are made of another letter, text
BlockTitles == {<<>>} \cup {<<SP, t>> : t \in TitleAttrs}
Block(tag, title, inner) == <<FENCE>> \o tag \o title \o <<NL>> \o inner \o <<FENCE>>
FirstBlocks ==
    {Block(tag, title, inner) :
        tag \in {<<>>, <<"p">>}, title \in BlockTitles,
        inner \in {<<>>, <<"p">>, <<"p", NL>>, <<NL, "p", SP, NL>>}}
LaterBlocks ==
    {Block(tag, <<>>, inner) : tag \in {<<>>, <<"q">>}, inner \in {<<"q">>, <<"q", NL>>}}
Between == {<<>>, <<NL>>, <<"p", NL>>}
TwoBlockDocs ==
    {pre \o b1 \o mid \o b2 \o post :
        pre \in {<<>>, <<"p", NL>>}, b1 \in FirstBlocks, mid \in Between,
        b2 \in LaterBlocks, post \in {<<>>, <<NL>>}}

\* the markdown files the text is said to come from: <<language, file name>>
MdPaths == {<<<<"g", "o">>, n \o MdSuffix>> : n \in {<<"a">>, <<"b">>}}

ExtractCodeBlock ==
    /\ call = NoCall
    /\ \E content \in Seqs(MdChars, MaxMd) \cup TwoBlockDocs, snippet_path \in MdPaths :
          /\ call' = [op |-> "extract_code_block",
                      in |-> [content |-> content, snippet_path |-> snippet_path],
                      out |-> extract_code_block(content, snippet_path)]
          /\ UNCHANGED otherVars

\* ---------------------------------------------------------- wrap_code_block
RawChars == {FENCE, "p", NL, SP}
\* file names: no extension, extensions of the table, another extension, and
\* a name that is all extension
SnippetNames ==
    { <<"a">>, <<"a", ".", "p", "y">>, <<"a", ".", "c", "s">>,
      <<"a", ".", "t", "x", "t">>, <<".", "p", "y">> }
\* language codes of the call
Languages == { <<"p", "y", "t", "h", "o", "n">>, <<"g", "o">>, <<".", "p", "y">> }

WrapCodeBlock ==
    /\ call = NoCall
    /\ \E content \in Seqs(RawChars, MaxRaw), name \in SnippetNames, language \in Languages :
          /\ call' = [op |-> "wrap_code_block",
                      in |-> [content |-> content, snippet_path |-> name, language |-> language],
                      out |-> wrap_code_block(content, name, language),
                      again |-> FALSE]
          /\ UNCHANGED otherVars

\* the result of a call is wrapped once more, for the same file and language
WrapAgain ==
    /\ call.op = "wrap_code_block"
    /\ ~call.again
    /\ call' = [op |-> "wrap_code_block",
                in |-> [call.in EXCEPT !.content = call.out],
                out |-> wrap_code_block(call.out, call.in.snippet_path, call.in.language),
                again |-> TRUE]
    /\ UNCHANGED otherVars

\* ------------------------------------------- PerformanceTableRenderer.render
IntValue(d) == PyValue("int", d)
OpsValues == {IntValue(<<"7">>), IntValue(<<"1", "5", "0", "0">>), Str(<<"9">>)}
\* a benchmark record with the keys name, size and those of shape
Bench(name, shape, ops) ==
    [k \in {"name", "size"} \cup shape |->
        CASE k = "name" -> Str(<<name>>)
          [] k = "size" -> Str(<<"1", "K">>)
          [] k = "latency" -> Str(<<"2", "m", "s">>)
          [] k = "throughput" -> Str(<<"3">>)
          [] k = "ops_sec" -> ops]
BenchRecords ==
    {Bench(name, shape, ops) : name \in {"a", "b"},
                               shape \in SUBSET {"latency", "ops_sec", "throughput"},
                               ops \in OpsValues}
\* the performance data of a language: absent or empty, without benchmarks,
\* or with a list of at most MaxBench records
PerfData ==
    {EmptyMap, "platform" :> Str(<<"x">>)}
    \cup {"benchmarks" :> b : b \in Seqs(BenchRecords, MaxBench)}
    \cup {("platform" :> Str(<<"x">>)) @@ ("note" :> Str(<<"n">>)) @@ ("benchmarks" :> b) :
            b \in Seqs(BenchRecords, 1)}

RenderTable ==
    /\ call = NoCall
    /\ \E perf_data \in PerfData, runtime \in {<<"r">>} :
          /\ call' = [op |-> "render",
                      in |-> [perf_data |-> perf_data, runtime |-> runtime],
                      out |-> perf_render(perf_data, runtime)]
          /\ UNCHANGED otherVars

\* =============================================== look-ups of a set-up generator
\* The generator after load_config and setup_jinja_env, with one target whose
\* template inserts the migration guide; the snippet and guide files vary.
Python == <<"p", "y", "t", "h", "o", "n">>
LookupNames == {<<"a">>, <<"a">> \o MdSuffix, <<"a", ".", "p", "y">>}
LookupTexts == {<<FENCE, "p", "y", NL, "x", NL, FENCE, NL>>, <<"x", CR, NL>>, <<BadByte>>}
SnippetSets ==
    UNION {[{<<Python, n>> : n \in S} -> LookupTexts] : S \in SUBSET LookupNames}
GuideVersions == {<<"1">>, <<"2">>}
GuideSets ==
    { EmptyMap,
      <<"py", <<"1">>>> :> <<"g", CR, NL>>,
      <<"py", <<"1">>>> :> <<BadByte>>,
      <<"py", <<"2">>>> :> <<"g">> }
GuideTemplate == <<"{{migration_guide}}", "a">>
\* the template of go includes the snippet a of python, that of py the guide
SnippetTemplate == <<SnippetTok, "a">>
PyEntry == <<"py", EmptyMap>>
LookupConfig ==
    PyValue("map", ("version" :> <<"1">>)
                       @@ ("languages" :> <<<<"go", EmptyMap>>, PyEntry>>))
DryRun == [language_filter |-> "", dry_run |-> TRUE, validate_only |-> FALSE]

LookupInit ==
    /\ cfgFile = LookupConfig
    /\ templates_dir = TRUE
    /\ templates = (DefaultTemplate("py") :> GuideTemplate)
                       @@ (DefaultTemplate("go") :> SnippetTemplate)
    /\ guides \in GuideSets
    /\ fs = EmptyMap
    /\ dirs = {}
    /\ config = LookupConfig
    /\ jinja_env = TRUE
    /\ pc = "idle"
    /\ runs = 0
    /\ args = NoArgs
    /\ queue = <<>>
    /\ all_ok = TRUE
    /\ ret = "none"
    /\ exit_code = -1
    /\ results = <<>>
    /\ start = [fs |-> fs, dirs |-> dirs]
    /\ prev = NoRun
    /\ VisitorIdle
    /\ snippets \in SnippetSets
    /\ call = NoCall
    /\ hist = <<>>

IncludeSnippet ==
    /\ call = NoCall /\ runs = 0
    /\ \E path \in LookupNames, language \in {Python, <<"g", "o">>} :
          /\ call' = [op |-> "include_snippet_filter",
                      in |-> [path |-> path, language |-> language],
                      out |-> include_snippet_filter(path, language)]
          /\ UNCHANGED otherVars

HasMigrationGuide ==
    /\ call = NoCall /\ runs = 0
    /\ \E lang_code \in LangCodes, version \in GuideVersions :
          /\ call' = [op |-> "has_migration_guide",
                      in |-> [lang_code |-> lang_code, version |-> version],
                      out |-> has_migration_guide(lang_code, version)]
          /\ UNCHANGED otherVars

InjectMigrationGuide ==
    /\ call = NoCall /\ runs = 0
    /\ \E lang_code \in LangCodes, version \in GuideVersions :
          /\ call' = [op |-> "inject_migration_guide",
                      in |-> [lang_code |-> lang_code, version |-> version],
                      out |-> inject_migration_guide(lang_code, version)]
          /\ UNCHANGED otherVars

\* one iteration of the loop of process_all_languages, as a dry run
ProcessTarget ==
    /\ call = NoCall /\ runs = 0
    /\ call' = [op |-> "process_language",
                in |-> [entry |-> PyEntry],
                out |-> process_language(PyEntry, DryRun, [fs |-> fs, dirs |-> dirs]).res]
    /\ UNCHANGED otherVars

\* main --dry-run over both targets
LookupMain == call = NoCall /\ Main(DryRun)

LookupNext ==
    \/ IncludeSnippet
    \/ HasMigrationGuide
    \/ InjectMigrationGuide
    \/ ProcessTarget
    \/ LookupMain
    \/ ProcessLanguage
    \/ Return
SpecLookup == LookupInit /\ [][LookupNext]_vars

\* C14: for a path without extension the file {path}.md is taken when it
\* exists, in preference to the extensionless file; the file taken is handled
\* by extract_code_block if and only if its extension is .md and by
\* wrap_code_block otherwise; when no candidate exists the filter raises the
\* not-found error and returns no text.
C14_SnippetResolution ==
    call.op = "include_snippet_filter" =>
        LET path == call.in.path
            language == call.in.language
            taken == IF suffix(path) = <<>> /\ <<language, path \o MdSuffix>> \in DOMAIN snippets
                     THEN path \o MdSuffix ELSE path
        IN  IF <<language, taken>> \notin DOMAIN snippets
            THEN call.out = [raised |-> "FileNotFoundError", text |-> <<>>]
            ELSE LET data == snippets[<<language, taken>>]
                 IN  ~undecodable(data) =>
                        IF suffix(taken) = MdSuffix
                        THEN call.out = extract_code_block(read_text(data), <<language, taken>>)
                        ELSE call.out = [raised |-> "none",
                                         text |-> wrap_code_block(read_text(data), taken, language)]

\* a and a.md both exist, a.md holding a fenced block and a raw text: the
\* block of a.md is what the filter returns
C14_Witness ==
    /\ call.op = "include_snippet_filter"
    /\ call.in.path = <<"a">> /\ call.in.language = Python
    /\ <<Python, <<"a">>>> \in DOMAIN snippets
    /\ <<Python, <<"a">> \o MdSuffix>> \in DOMAIN snippets
    /\ snippets[<<Python, <<"a">>>>] = <<"x", CR, NL>>
    /\ call.out = [raised |-> "none", text |-> <<FENCE, "p", "y", NL, "x", NL, FENCE, NL>>]

\* the file the filter takes for path, and whether it is markdown that can be
\* read and holds no fence
Taken(path, language) ==
    IF suffix(path) = <<>> /\ <<language, path \o MdSuffix>> \in DOMAIN snippets
    THEN path \o MdSuffix ELSE path
NoBlockTaken(path, language) ==
    LET key == <<language, Taken(path, language)>>
    IN  /\ key \in DOMAIN snippets
        /\ suffix(key[2]) = MdSuffix
        /\ ~undecodable(snippets[key])
        /\ \A i \in 1..Len(read_text(snippets[key])) : read_text(snippets[key])[i] # FENCE

\* C27: for a markdown snippet without a fenced block the extraction raises
\* ValueError with a message naming the snippet file and returns no text; in
\* a run the target whose template includes that snippet fails, and the other
\* target is rendered as it is on its own and succeeds.
C27_NoBlockFailsOneTarget ==
    /\ (call.op = "include_snippet_filter"
            /\ NoBlockTaken(call.in.path, call.in.language)) =>
          /\ call.out.raised = "ValueError"
          /\ call.out.text = <<>>
          /\ call.out.message[2] = <<call.in.language, Taken(call.in.path, call.in.language)>>
          /\ call.out = extract_code_block(
                            read_text(snippets[<<call.in.language,
                                                 Taken(call.in.path, call.in.language)>>]),
                            <<call.in.language, Taken(call.in.path, call.in.language)>>)
    /\ (pc = "idle" /\ runs > 0 /\ NoBlockTaken(SnippetArgs.path, SnippetArgs.language)) =>
          /\ Len(results) = 2
          /\ results[1].code = "go" /\ ~results[1].ok /\ results[1].raised = "Exception"
          /\ results[2] = process_language(PyEntry, DryRun, start).res
          /\ results[2].ok /\ results[2].raised = "none"
          /\ ret = "False" /\ exit_code = 1
          /\ fs = start.fs /\ dirs = start.dirs
C27_Witness ==
    /\ pc = "idle" /\ runs > 0
    /\ NoBlockTaken(SnippetArgs.path, SnippetArgs.language)
    /\ ~results[1].ok /\ results[2].ok /\ results[2].content # <<>>

\* C15: has_migration_guide returns a boolean, True exactly when the guide
\* file of the language and version exists; inject_migration_guide returns
\* the text of that file when it exists and can be read and the empty string
\* otherwise, never raising; a target whose guide is missing is not failed.
C15_GuideLookups ==
    /\ call.op = "has_migration_guide" =>
          /\ call.out \in BOOLEAN
          /\ call.out <=> <<call.in.lang_code, call.in.version>> \in DOMAIN guides
    /\ call.op = "inject_migration_guide" =>
          LET key == <<call.in.lang_code, call.in.version>>
          IN  call.out = IF key \in DOMAIN guides /\ ~undecodable(guides[key])
                         THEN read_text(guides[key]) ELSE <<>>
    /\ (call.op = "process_language" /\ <<"py", <<"1">>>> \notin DOMAIN guides) =>
          /\ call.out.ok /\ call.out.raised = "none"
          /\ call.out.content = <<"a", NL>>

\* the guide of the target's version is missing and the target was rendered
C15_Witness ==
    /\ call.op = "process_language"
    /\ <<"py", <<"2">>>> \in DOMAIN guides
    /\ call.out.ok
    /\ call.out.content = <<"a", NL>>

\* C12: resolve_output_path returns the target's explicit output_path (below
\* the project root) whenever the target configuration has one, for every
\* language code including go; otherwise packages/go/v2/README.md for go and
\* packages/<code>/README.md for every other code.
C12_OutputPath ==
    call.op = "resolve_output_path" =>
        LET code == call.in.lang_code
            cfg == call.in.lang_config
        IN  call.out =
                IF "output_path" \in DOMAIN cfg THEN cfg["output_path"]
                ELSE IF code = "go" THEN <<"packages", "go", "v2", "README.md">>
                ELSE <<"packages", code, "README.md">>

C12_Witness ==
    /\ call.op = "resolve_output_path"
    /\ call.in.lang_code = "go"
    /\ "output_path" \in DOMAIN call.in.lang_config
    /\ call.out = <<"docs", "README.md">>

\* The snippet holds exactly one fenced block: two fences, the first followed
\* by an optional tag and the end of its line.
FenceAt(c) == {i \in 1..Len(c) : c[i] = FENCE}
Opening(c) == CHOOSE i \in FenceAt(c) : \A j \in FenceAt(c) : i <= j
Closing(c) == CHOOSE i \in FenceAt(c) : \A j \in FenceAt(c) : j <= i
TagEnd(c) == RunEnd(c, Opening(c) + 1, WordChars)
OneBlock(c) ==
    /\ Cardinality(FenceAt(c)) = 2
    /\ TagEnd(c) < Closing(c)
    /\ c[TagEnd(c)] = NL
Tag(c) == SubSeq(c, Opening(c) + 1, TagEnd(c) - 1)
Inner(c) == SubSeq(c, TagEnd(c) + 1, Closing(c) - 1)
\* the text without the line break that ends it, if it ends in one
Chomp(s) == IF s # <<>> /\ s[Len(s)] = NL THEN SubSeq(s, 1, Len(s) - 1) ELSE s

\* C16 as stated: for a snippet with exactly one fenced block,
\* extract_code_block returns the block's inner text unchanged (leading blank
\* lines and trailing whitespace included), between a fence line carrying the
\* original tag, or text when there is none, and a closing fence line.
C16_InnerTextUnchanged ==
    (call.op = "extract_code_block" /\ OneBlock(call.in.content)) =>
        LET c == call.in.content
        IN  /\ call.out.raised = "none"
            /\ call.out.text =
                   <<FENCE>> \o (IF Tag(c) # <<>> THEN Tag(c) ELSE TextTag) \o <<NL>>
                   \o Chomp(Inner(c)) \o <<NL, FENCE, NL>>

\* the n-th fence of c
Fence(c, n) == CHOOSE i \in FenceAt(c) : Cardinality({j \in FenceAt(c) : j <= i}) = n
\* a block opens at the fence c[i]: the fence, an optional tag, an optional
\* title attribute, and the end of the line
BlockOpens(c, i) ==
    LET t == RunEnd(c, i + 1, WordChars)
    IN  \/ t <= Len(c) /\ c[t] = NL
        \/ t + 2 <= Len(c) /\ c[t] = SP /\ c[t + 1] \in TitleAttrs /\ c[t + 2] = NL
TwoOrMoreBlocks(c) ==
    /\ Cardinality(FenceAt(c)) >= 4
    /\ BlockOpens(c, Fence(c, 1))
    /\ BlockOpens(c, Fence(c, 3))
FirstBlock(c) == SubSeq(c, Fence(c, 1), Fence(c, 2))
Chars(s) == {s[i] : i \in 1..Len(s)}

\* C26: for markdown with two or more fenced blocks extract_code_block
\* returns what it returns for the first block alone: a fence line with the
\* first block's tag (text when it has none), text of the first block, and
\* the closing fence; no character of a later block appears in the result.
C26_FirstMatchWins ==
    (call.op = "extract_code_block" /\ TwoOrMoreBlocks(call.in.content)) =>
        LET c == call.in.content
            b == FirstBlock(c)
            tag == SubSeq(b, 2, RunEnd(b, 2, WordChars) - 1)
            opening == <<FENCE>> \o (IF tag # <<>> THEN tag ELSE TextTag) \o <<NL>>
        IN  /\ call.out = extract_code_block(b, call.in.snippet_path)
            /\ call.out.raised = "none"
            /\ SubSeq(call.out.text, 1, Len(opening)) = opening
            /\ Chars(call.out.text) \subseteq Chars(b) \cup Chars(opening)
C26_Witness ==
    /\ call.op = "extract_code_block"
    /\ TwoOrMoreBlocks(call.in.content)
    /\ "q" \in Chars(call.in.content)
    /\ "p" \in Chars(call.out.text)

\* the text begins, after leading whitespace, with a fence
Fenced(c) == \E i \in 1..Len(c) : c[i] = FENCE /\ \A j \in 1..(i - 1) : c[j] \in Whitespace

\* C17: wrap_code_block returns content that already begins (after leading
\* whitespace) with a fence exactly as it was given, and wrapping the result
\* of a wrap once more returns that result: wrap(wrap(x)) = wrap(x).
C17_WrapIdempotent ==
    call.op = "wrap_code_block" =>
        /\ Fenced(call.in.content) => call.out = call.in.content
        /\ call.again => call.out = call.in.content

\* a raw snippet was wrapped, and wrapping the result again returned it
C17_Witness ==
    /\ call.op = "wrap_code_block" /\ call.again
    /\ call.in.content = <<FENCE, "p", "y", NL, SP, "p", NL, FENCE, NL>>
    /\ call.out = call.in.content

\* the extension table's language for the file, else the extension without
\* its dot, else text
ExpectedTag(name) ==
    IF suffix(name) \in DOMAIN LANGUAGE_MAP THEN LANGUAGE_MAP[suffix(name)]
    ELSE IF suffix(name) # <<>> THEN Tail(suffix(name))
    ELSE TextTag

\* C18 as stated: the fence of a wrapped raw snippet carries the language the
\* extension table gives for the file's extension (python for a.py, csharp
\* for a.cs), else the extension without its dot, else text.
C18_FenceTag ==
    (call.op = "wrap_code_block" /\ ~Fenced(call.in.content)) =>
        LET tag == ExpectedTag(call.in.snippet_path)
        IN  /\ Len(call.out) >= Len(tag) + 2
            /\ SubSeq(call.out, 1, Len(tag) + 2) = <<FENCE>> \o tag \o <<NL>>

\* the text without its trailing whitespace: its longest prefix that is empty
\* or ends in a character that is not whitespace
Trimmed(c) ==
    LET ends == {k \in 0..Len(c) : k = 0 \/ c[k] \notin Whitespace}
    IN  SubSeq(c, 1, CHOOSE k \in ends : \A e \in ends : e <= k)

\* the tags a fence line may carry for a file: a language of the extension
\* table, the file's extension without its dot, or text when it has none
FenceTags(name) ==
    {LANGUAGE_MAP[e] : e \in DOMAIN LANGUAGE_MAP} \cup
    (IF suffix(name) # <<>> THEN {Tail(suffix(name))} ELSE {TextTag})

\* C28: for raw content that does not begin (after leading whitespace) with a
\* fence, wrap_code_block returns an opening fence line carrying a language
\* tag, then the content with its trailing whitespace trimmed, then the
\* closing fence on a line of its own followed by exactly one newline.
C28_WrappedRaw ==
    (call.op = "wrap_code_block" /\ ~Fenced(call.in.content)) =>
        \E tag \in FenceTags(call.in.snippet_path) :
            /\ tag # <<>>
            /\ \A i \in 1..Len(tag) : tag[i] \notin Whitespace \cup {FENCE}
            /\ call.out = <<FENCE>> \o tag \o <<NL>> \o Trimmed(call.in.content)
                              \o <<NL, FENCE, NL>>

\* raw content ending in whitespace was wrapped: the fence closes right after
\* its last visible character
C28_Witness ==
    /\ call.op = "wrap_code_block"
    /\ call.in.content = <<"p", SP, NL>>
    /\ call.in.snippet_path = <<"a", ".", "t", "x", "t">>
    /\ call.out = <<FENCE, "t", "x", "t", NL, "p", NL, FENCE, NL>>

\* C19 as stated: render returns the empty string, without raising, whenever
\* the performance data is empty, has no benchmarks key, or has an empty
\* benchmarks list.
C19_EmptyForNoBenchmarks ==
    (call.op = "render" /\ ("benchmarks" \in DOMAIN call.in.perf_data =>
                            call.in.perf_data["benchmarks"] = <<>>)) =>
        call.out = [raised |-> "none", text |-> <<>>]

\* the shape the first record selects, and the columns and header line of it
ShapeOf(first) ==
    IF "latency" \in DOMAIN first THEN "latency"
    ELSE IF "ops_sec" \in DOMAIN first
         THEN (IF "throughput" \in DOMAIN first THEN "ops_throughput" ELSE "ops")
    ELSE "unknown"
Columns(shape) ==
    CASE shape = "latency" -> <<"name", "size", "latency", "throughput">>
      [] shape = "ops_throughput" -> <<"name", "size", "ops_sec", "throughput">>
      [] shape = "ops" -> <<"name", "size", "ops_sec">>
HeaderLine(shape) ==
    CASE shape = "latency" -> "| Document | Size | Latency | Throughput |"
      [] shape = "ops_throughput" -> "| Document | Size | Ops/sec | Throughput |"
      [] shape = "ops" -> "| Document | Size | Ops/sec |"
\* the record has every column of the shape, ops_sec being a number
Renderable(bench, shape) ==
    \A i \in 1..Len(Columns(shape)) :
        /\ Columns(shape)[i] \in DOMAIN bench
        /\ Columns(shape)[i] = "ops_sec" => bench["ops_sec"].kind = "int"
\* the lines of a text: the maximal runs without newline, each ended by one
RECURSIVE Lines(_)
Lines(text) ==
    IF text = <<>> THEN <<>>
    ELSE LET n == RunEnd(text, 1, {text[i] : i \in 1..Len(text)} \ {NL})
         IN  <<SubSeq(text, 1, n - 1)>> \o Lines(SubSeq(text, n + 1, Len(text)))
\* the table of a rendered text: what follows the line above the table
TableLines(out, perf_data, runtime) ==
    Lines(SubSeq(out, Len(perf_header(perf_data, runtime)) + 1, Len(out)))

\* C20: the shape of the table is decided from the first record alone
\* (latency wins over ops_sec; ops_sec with throughput gives four columns,
\* ops_sec alone three) and applied to every record: the header line of the
\* shape, a separator line, then exactly one row per record in input order,
\* each starting with the record's name and holding the shape's columns.  A
\* first record of no known shape gives the unknown-format placeholder and
\* no failure.  render returns whenever every record has the shape's columns.
C20_ShapeFromFirstRecord ==
    (call.op = "render" /\ "benchmarks" \in DOMAIN call.in.perf_data
                        /\ call.in.perf_data["benchmarks"] # <<>>) =>
        LET b == call.in.perf_data["benchmarks"]
            shape == ShapeOf(b[1])
            lines == TableLines(call.out.text, call.in.perf_data, call.in.runtime)
        IN  IF shape = "unknown"
            THEN /\ call.out.raised = "none"
                 /\ lines = <<<<>>, <<"(Unknown benchmark format)">>>>
            ELSE /\ (\A i \in 1..Len(b) : Renderable(b[i], shape)) => call.out.raised = "none"
                 /\ call.out.raised = "none" =>
                       /\ Len(lines) = Len(b) + 2
                       /\ lines[1] = <<HeaderLine(shape)>>
                       /\ \A i \in 1..Len(b) :
                             /\ SubSeq(lines[i + 2], 1, 2) = <<"| ">> \o b[i]["name"].doc
                             /\ Cardinality({j \in 1..Len(lines[i + 2]) :
                                                lines[i + 2][j] = " | "})
                                  = Len(Columns(shape)) - 1

\* the first record has latency and ops_sec, two rows follow the latency header
C20_Witness ==
    /\ call.op = "render"
    /\ "benchmarks" \in DOMAIN call.in.perf_data
    /\ Len(call.in.perf_data["benchmarks"]) = 2
    /\ {"latency", "ops_sec"} \subseteq DOMAIN call.in.perf_data["benchmarks"][1]
    /\ call.in.perf_data["benchmarks"][1]["name"] # call.in.perf_data["benchmarks"][2]["name"]
    /\ call.out.raised = "none"
    /\ Len(TableLines(call.out.text, call.in.perf_data, call.in.runtime)) = 4

\* a record of the data model: name, size and either latency with throughput
\* or a numeric ops_sec with or without throughput
WellFormed(bench) ==
    \/ DOMAIN bench = {"name", "size", "latency", "throughput"}
    \/ /\ DOMAIN bench \in {{"name", "size", "ops_sec"}, {"name", "size", "ops_sec", "throughput"}}
       /\ bench["ops_sec"].kind = "int"
\* well-formed records, one of them of another shape than the first
MixedShape(b) ==
    /\ \A i \in 1..Len(b) : WellFormed(b[i])
    /\ \E i \in 1..Len(b) : ShapeOf(b[i]) # ShapeOf(b[1])

\* C21 as stated: for a mixed-shape collection render does not raise and
\* returns a table of the first record's shape, one row per record.
C21_MixedShapeRenders ==
    (call.op = "render" /\ "benchmarks" \in DOMAIN call.in.perf_data
                        /\ MixedShape(call.in.perf_data["benchmarks"])) =>
        LET b == call.in.perf_data["benchmarks"]
            lines == TableLines(call.out.text, call.in.perf_data, call.in.runtime)
        IN  /\ call.out.raised = "none"
            /\ Len(lines) = Len(b) + 2
            /\ lines[1] = <<HeaderLine(ShapeOf(b[1]))>>

PureInit == ReadmeIdle /\ VisitorIdle /\ FiltersIdle
PureNext ==
    \/ ResolveOutputPath
    \/ ExtractCodeBlock
    \/ WrapCodeBlock
    \/ WrapAgain
    \/ RenderTable
SpecPure == PureInit /\ [][PureNext]_vars

\* ------------------- README generator: its methods called one at a time
\* A caller calls load_config, setup_jinja_env, process_all_languages and main
\* on one generator in any order, and scripts/readme_config.yaml may be
\* replaced between two calls. main makes the same three calls in its own
\* order inside one try block. hist records every call with its outcome.
MaxCalls == 3

ApiDoc == PyValue("map", ("version" :> <<"1">>) @@ ("languages" :> <<<<"py", EmptyMap>>>>))
ApiConfigFiles ==
    {PyValue(k, EmptyMap) : k \in {"absent", "yamlerror", "none", "list"}} \cup {ApiDoc}
ApiArgs == {a \in Args : a.language_filter = "" /\ ~a.dry_run}

\* one entry of hist
Called(op, a, raised, value, res) ==
    [op |-> op, in_main |-> pc # "idle", args |-> a, raised |-> raised,
     ret |-> value, results |-> res]

ApiInit ==
    /\ cfgFile \in ApiConfigFiles
    /\ templates_dir \in BOOLEAN
    /\ templates = IF templates_dir THEN (DefaultTemplate("py") :> <<"a">>) ELSE EmptyMap
    /\ guides = EmptyMap
    /\ fs \in {EmptyMap, PyReadme :> <<"a", NL>>}
    /\ dirs = UNION {Ancestors(p) : p \in DOMAIN fs}
    /\ config = PyValue("map", EmptyMap)
    /\ jinja_env = FALSE
    /\ pc = "idle"
    /\ runs = 0
    /\ args = NoArgs
    /\ queue = <<>>
    /\ all_ok = TRUE
    /\ ret = "none"
    /\ exit_code = -1
    /\ results = <<>>
    /\ start = [fs |-> fs, dirs |-> dirs]
    /\ prev = NoRun
    /\ VisitorIdle
    /\ FiltersIdle

apiFrame == <<templates_dir, templates, guides, runs, queue, all_ok, ret, results,
              start, prev, visitorVars, snippets, call>>

\* the configuration file is edited, removed or created between two calls
ReplaceConfig ==
    /\ pc = "idle"
    /\ \E f \in ApiConfigFiles \ {cfgFile} : cfgFile' = f
    /\ UNCHANGED <<config, jinja_env, fs, dirs, pc, args, exit_code, hist>>
    /\ UNCHANGED apiFrame

\* main(args) enters its try block
CallMain ==
    /\ pc = "idle"
    /\ Len(hist) < MaxCalls
    /\ \E a \in ApiArgs :
          /\ args' = a
          /\ hist' = Append(hist, Called("main", a, FALSE, "none", <<>>))
    /\ pc' = "main_load"
    /\ exit_code' = -1
    /\ UNCHANGED <<cfgFile, config, jinja_env, fs, dirs>>
    /\ UNCHANGED apiFrame

\* self.load_config(), by the caller or as the first call of main
CallLoadConfig ==
    /\ \/ pc = "idle" /\ Len(hist) < MaxCalls
       \/ pc = "main_load"
    /\ LET l == load_config(cfgFile, config)
       IN  /\ config' = l.config
           /\ hist' = Append(hist, Called("load_config", NoArgs, l.raised, "none", <<>>))
           /\ pc' = IF pc = "idle" \/ l.raised THEN "idle" ELSE "main_setup"
           /\ exit_code' = IF pc # "idle" /\ l.raised THEN main_result(TRUE, FALSE)
                           ELSE exit_code
    /\ UNCHANGED <<cfgFile, jinja_env, fs, dirs, args>>
    /\ UNCHANGED apiFrame

\* self.setup_jinja_env(), by the caller or as the second call of main
CallSetupJinjaEnv ==
    /\ \/ pc = "idle" /\ Len(hist) < MaxCalls
       \/ pc = "main_setup"
    /\ jinja_env' = IF setup_jinja_env_raises THEN jinja_env ELSE TRUE
    /\ hist' = Append(hist, Called("setup_jinja_env", NoArgs, setup_jinja_env_raises,
                                   "none", <<>>))
    /\ pc' = IF pc = "idle" \/ setup_jinja_env_raises THEN "idle" ELSE "main_process"
    /\ exit_code' = IF pc # "idle" /\ setup_jinja_env_raises THEN main_result(TRUE, FALSE)
                    ELSE exit_code
    /\ UNCHANGED <<cfgFile, config, fs, dirs, args>>
    /\ UNCHANGED apiFrame

\* the call made with the arguments a had the outcome p
ProcessedAll(a, p) ==
    /\ fs' = p.fs
    /\ dirs' = p.dirs
    /\ hist' = Append(hist, Called("process_all_languages", a, p.raised, p.ret, p.results))
    /\ exit_code' = IF pc = "idle" THEN exit_code ELSE main_result(p.raised, p.ret = "True")

\* self.process_all_languages(...), by the caller or as the last call of main
CallProcessAll ==
    /\ \/ pc = "idle" /\ Len(hist) < MaxCalls
       \/ pc = "main_process"
    /\ \E a \in IF pc = "idle" THEN ApiArgs ELSE {args} :
          \E p \in {process_all_languages(config, a, [fs |-> fs, dirs |-> dirs])} :
              ProcessedAll(a, p)
    /\ pc' = "idle"
    /\ UNCHANGED <<cfgFile, config, jinja_env, args>>
    /\ UNCHANGED apiFrame

\* the call hist[k] rendered a target: generate_readme returned for it
Rendered(e) ==
    /\ e.op = "process_all_languages"
    /\ \E i \in 1..Len(e.results) :
          e.results[i].raised = "none" /\ (e.args.validate_only => e.results[i].existed)
CallSucceeded(e, op) == e.op = op /\ ~e.raised
LoadedBefore(k) == \E i \in 1..(k - 1) : CallSucceeded(hist[i], "load_config")
ConfiguredBefore(k) == \E j \in 1..(k - 1) : CallSucceeded(hist[j], "setup_jinja_env")
ConfiguredAfterLoad(k) ==
    \E i, j \in 1..(k - 1) :
        i < j /\ CallSucceeded(hist[i], "load_config") /\ CallSucceeded(hist[j], "setup_jinja_env")
NeverLoadedBefore(k) == \A i \in 1..(k - 1) : hist[i].op # "load_config"
\* what holds of the call hist[k] whatever the order of the calls
StagesGuarded(k) ==
    /\ (hist[k].op = "process_all_languages" /\ NeverLoadedBefore(k)) =>
           ~hist[k].raised /\ hist[k].ret = "False" /\ hist[k].results = <<>>
    /\ (hist[k].in_main /\ hist[k].raised /\ hist[k].op \in {"load_config", "setup_jinja_env"}) =>
           IF k = Len(hist) THEN pc = "idle" /\ exit_code = 1
           ELSE ~hist[k + 1].in_main
    /\ (hist[k].in_main /\ hist[k].op = "process_all_languages") =>
           /\ k > 2
           /\ hist[k - 1].in_main /\ CallSucceeded(hist[k - 1], "setup_jinja_env")
           /\ hist[k - 2].in_main /\ CallSucceeded(hist[k - 2], "load_config")

\* C24 as stated: a target is rendered, written or validated only after a
\* successful load_config followed by a successful setup_jinja_env;
\* process_all_languages before any load_config processes no target and
\* returns False; a failing load_config or setup_jinja_env ends main.
C24_LoadThenConfigureThenRun ==
    \A k \in 1..Len(hist) :
        /\ Rendered(hist[k]) => ConfiguredAfterLoad(k)
        /\ StagesGuarded(k)

\* C24: a target is rendered, written or validated only after a successful
\* load_config and a successful setup_jinja_env, made in either order before
\* the call; main makes them in the order load_config, setup_jinja_env;
\* process_all_languages before any load_config processes no target and
\* returns False; a failing load_config or setup_jinja_env ends main.
C24_LoadAndConfigureBeforeRun ==
    \A k \in 1..Len(hist) :
        /\ Rendered(hist[k]) => LoadedBefore(k) /\ ConfiguredBefore(k)
        /\ StagesGuarded(k)
C24_Witness ==
    \E k, m \in 1..Len(hist) :
        /\ Rendered(hist[k]) /\ hist[k].in_main /\ ~hist[k].args.validate_only
        /\ hist[m].op = "process_all_languages" /\ NeverLoadedBefore(m)

\* the last load_config call made before hist[k] raised
LastLoadFailedBefore(k) ==
    \E i \in 1..(k - 1) :
        /\ hist[i].op = "load_config" /\ hist[i].raised
        /\ \A j \in (i + 1)..(k - 1) : hist[j].op # "load_config"

\* C25 as stated: after any sequence of load_config calls whose last call
\* raised, process_all_languages does not raise, processes zero targets and
\* returns False.
C25_FailedLoadLeavesNoDocument ==
    \A k \in 1..Len(hist) :
        (hist[k].op = "process_all_languages" /\ LastLoadFailedBefore(k)) =>
            ~hist[k].raised /\ hist[k].ret = "False" /\ hist[k].results = <<>>

ApiNext ==
    \/ ReplaceConfig
    \/ CallMain
    \/ CallLoadConfig
    \/ CallSetupJinjaEnv
    \/ CallProcessAll
SpecApi == ApiInit /\ [][ApiNext]_vars

\* ==================================================== the render context
\* The generator after load_config and setup_jinja_env, for documents with one
\* target: every choice of the shared fields the document has and of the
\* context keys the target's own configuration sets.
SharedFields ==
    [version |-> <<"1">>, license |-> <<"A">>, discord_url |-> <<"d">>, banner_url |-> <<"b">>]
OverrideFields ==
    [language |-> <<"x">>, version |-> <<"2">>, license |-> <<"B">>, discord_url |-> <<"e">>,
     banner_url |-> <<"c">>, migration_guide |-> <<"m">>]
SharedDocs == {Restrict(SharedFields, S) : S \in SUBSET DOMAIN SharedFields}
ContextLangConfigs == {Restrict(OverrideFields, S) : S \in SUBSET DOMAIN OverrideFields}
ContextConfigs ==
    {PyValue("map", d @@ ("languages" :> <<<<c, l>>>>)) :
        d \in SharedDocs, c \in LangCodes, l \in ContextLangConfigs}
\* guides of py for the shared version and for the version a target may set
ContextGuides == (<<"py", <<"1">>>> :> <<"g", CR, NL>>) @@ (<<"py", <<"2">>>> :> <<"h">>)

ContextInit ==
    /\ cfgFile \in ContextConfigs
    /\ templates_dir = TRUE
    /\ templates = EmptyMap
    /\ guides = ContextGuides
    /\ fs = EmptyMap
    /\ dirs = {}
    /\ config = cfgFile
    /\ jinja_env = TRUE
    /\ pc = "idle"
    /\ runs = 0
    /\ args = NoArgs
    /\ queue = <<>>
    /\ all_ok = TRUE
    /\ ret = "none"
    /\ exit_code = -1
    /\ results = <<>>
    /\ start = [fs |-> fs, dirs |-> dirs]
    /\ prev = NoRun
    /\ VisitorIdle
    /\ FiltersIdle

\* self._prepare_template_context(lang_code, lang_config) for the document's target
PrepareTemplateContext ==
    /\ call = NoCall
    /\ \E entry \in {config.doc["languages"][1]} :
          call' = [op |-> "prepare_template_context",
                   in |-> [lang_code |-> entry[1], lang_config |-> entry[2]],
                   out |-> prepare_template_context(entry[1], entry[2])]
    /\ UNCHANGED otherVars

ContextKeys ==
    {"language", "version", "license", "discord_url", "banner_url", "migration_guide"}
\* the text of the guide file of a language and version, "" when there is none
GuideText(lang_code, version) ==
    IF lang_code = "py" /\ version = <<"1">> THEN <<"g", NL>>
    ELSE IF lang_code = "py" /\ version = <<"2">> THEN <<"h">>
    ELSE <<>>
\* the value of a context key when the target's configuration does not set it
SharedValue(k, lang_code) ==
    CASE k = "language" -> <<lang_code>>
      [] k = "license" -> IF k \in DOMAIN config.doc THEN config.doc[k] ELSE <<"M", "I", "T">>
      [] k = "migration_guide" ->
             GuideText(lang_code, IF "version" \in DOMAIN config.doc
                                  THEN config.doc["version"] ELSE <<>>)
      [] OTHER -> IF k \in DOMAIN config.doc THEN config.doc[k] ELSE <<>>

\* C30: in the context _prepare_template_context returns, every key the
\* language configuration sets has the language configuration's value, and
\* every other context key has the shared value: the language code, the
\* document's version, discord_url and banner_url (else the empty string), its
\* license (else MIT), and the migration guide of the document's version, also
\* when the language configuration sets another version.
C30_ContextPrecedence ==
    call.op = "prepare_template_context" =>
        /\ DOMAIN call.out = ContextKeys \cup DOMAIN call.in.lang_config
        /\ \A k \in DOMAIN call.in.lang_config : call.out[k] = call.in.lang_config[k]
        /\ \A k \in ContextKeys \ DOMAIN call.in.lang_config :
              call.out[k] = SharedValue(k, call.in.lang_code)

\* a py target that sets version and banner_url over a document with a
\* version and a banner but no license: its version and banner, MIT, and the
\* guide of the document's version
C30_Witness ==
    /\ call.op = "prepare_template_context"
    /\ call.in.lang_code = "py"
    /\ DOMAIN call.in.lang_config = {"version", "banner_url"}
    /\ DOMAIN config.doc = {"version", "banner_url", "languages"}
    /\ call.out.version = <<"2">> /\ call.out.banner_url = <<"c">>
    /\ call.out.license = <<"M", "I", "T">> /\ call.out.discord_url = <<>>
    /\ call.out.migration_guide = <<"g", NL>>

ContextNext == PrepareTemplateContext
SpecContext == ContextInit /\ [][ContextNext]_vars

====
